---- MODULE Spec2Model ----
(***************************************************************************)
(* A model of thenextquant's coordination core:                            *)
(*   - the message bus (quant/event.py, class EventCenter), and            *)
(*   - the per-venue trading sessions (quant/platform/*.py).               *)
(* The two parts share no state; SpecBus runs the bus, SpecSession runs    *)
(* the sessions, Spec runs both.                                           *)
(***************************************************************************)
EXTENDS Integers, Sequences, FiniteSets, TLC

(***************************************************************************)
(* Bounds of the model.                                                    *)
(***************************************************************************)
MaxSubs == 2
MaxChannels == 2
MaxConnects == 2
MaxMsgs == 2
MaxPubs == 2

NumSessions == 2

MaxOrders == 2

MaxVenueEvents == 2

MaxWsConns == 2

MaxIds == 2

MaxMissing == 1

MaxPolls == 3

MaxObjs == 2

MaxMutations == 1
\* items of a list or dict that is encoded
MaxItems == 2
\* payloads that reach one subscriber
MaxBodies == 2
\* put_listen_key requests of one session
MaxRenewals == 2
\* callbacks of client code triggered in one run
MaxCallbacks == 3
\* operations sent to the broker in one run
MaxWire == 2

\* self._channel = None
NoChannel == 0

\* "{exchange}:{routing_key}" keys of the callback-dispatch table
Keys == {"Asset:binance.acct", "Order:binance.acct.BTC"}

VARIABLES
    \* ---- EventCenter fields
    connected,      \* self._connected
    channel,        \* self._channel (NoChannel or a channel id)
    subscribers,    \* self._subscribers, in registration order
    event_handler,  \* self._event_handler: key -> list of callbacks
    \* ---- tasks of the event loop that belong to the bus
    conns,          \* connect() coroutines in flight
    timer,          \* call_later(5, self._bind_and_consume) is pending
    passes,         \* do_them() coroutines in flight
    cbTasks,        \* SingleTask.run(func, exchange, routing_key, body) not yet run
    \* ---- the broker
    chCount,        \* channels opened so far; a channel's id is its rank
    openCh,         \* channels that are open
    knownAtInstall, \* len(self._subscribers) when self._channel was last set
    bound,          \* per channel, the subscriptions consumed on it, in order
    msgCount,       \* messages delivered to exact-match consumers so far
    received,       \* per delivered message: key, channel, callbacks dispatched
    acks,           \* basic_client_ack calls that reached the broker
    handled,        \* <<message, callback>> pairs whose callback completed
    pubCount,       \* publish() calls so far
    sent,           \* publish() calls that were transmitted
    dropped         \* publish() calls made while not connected

pubVars == <<pubCount, sent, dropped>>

dlvVars == <<cbTasks, msgCount, received, acks, handled>>

busVars == <<connected, channel, subscribers, event_handler, conns, timer, passes,
             chCount, openCh, knownAtInstall, bound, dlvVars, pubVars>>

VARIABLES
    \* ---- per trading session (a function of the session)
    venue,          \* the venue class of the session, "none" when not constructed
    cidDigit,       \* per order: its client order id ends with a digit
    ws,             \* the stream: "init", "connecting", "open", "lost", "dead"
    wsConns,        \* stream connections opened so far
    inbox,          \* frames the venue has sent on the stream, not yet read
    handlers,       \* process()/process_binary() coroutines in flight, all sessions
    cc,             \* connected_callback() REST fetches in flight (Binance)
    orders,         \* self._orders: order -> normalised status, or "absent"
    subOk,          \* self._subscribe_order_ok, self._subscribe_position_ok
    _ok,            \* self._ok
    listenKey,      \* self._listen_key is set
    \* ---- the venue
    vord,           \* the venue's own status code of each order, or "none"
    vEvents,        \* order events the venue has produced so far
    venueTodo,      \* requests received on the stream that the venue has to answer
    vsub,           \* the order channel is subscribed on the current connection
    \* ---- bookkeeping
    rcvd,           \* frames read from the stream so far
    arrivals,       \* order frames in the order they were read from the stream
    nHandled,       \* order frames whose handler has run
    reports,        \* order-update callbacks made for streamed updates
    initLog,        \* init-result callbacks made
    began,          \* frames (by arrival number) in the order their handling began
    ended,          \* frames (by arrival number) in the order their handling ended
    missed,         \* orders that became terminal at the venue while the stream was down
    reconciledConn, \* the connection whose open-order reconciliation completed last
    \* ---- create_order() / revoke_order() calls of the strategy
    call,           \* the call in flight: its arguments, position and return value
    requests,       \* REST requests issued so far, in order
    responses,      \* what the venue answered to them, in order
    cancelled,      \* orders the venue has cancelled on request
    twoParts,       \* order -> its Binance order_no splits at "_" into two parts
    \* ---- construction of the Trade objects
    built,          \* "no", or how __init__ ended: "failed" or "ok"
    kwargs,         \* the keyword arguments __init__ was given (those that are set)
    facade,         \* the platform asked for, of the Trade facade or of a class directly
    loopTasks,      \* LoopRunTask.register calls made by __init__
    assetSubs,      \* AssetSubscribe objects made by __init__
    \* ---- history of the start-up
    confirmed,      \* subscribe confirmations handled: connection and channel
    \* ---- the position check of BinanceFutureTrade
    _position,      \* self._position
    polls,          \* get_position requests issued so far
    polling,        \* get_position requests in flight
    snaps,          \* what the requests that succeeded returned, in order
    posReports,     \* position-update callbacks made
    \* ---- objects shared with the strategy
    objs,           \* the Asset objects made so far: their `update` field and `assets` dict
    dicts,          \* the `assets` dicts made so far: what they hold
    _assets,        \* self._assets: the Asset object the session holds, if any
    held,           \* the Asset objects the strategy has been handed
    mutations,      \* assignments the strategy has made to what it was handed
    \* ---- one event on its way from a publisher to a subscriber
    pub,            \* the Event object of the publisher: class, name, data
    body,           \* the payload in the subscriber's queue, <<>> when there is none
    intact,         \* the payload in the queue is what dumps() returned
    sub,            \* the Event object of the subscriber: class, _name, _data
    got,            \* per payload handled by Event.callback: what became of it
    \* ---- the listen-key renewal of the Binance sessions
    putLog,         \* per session, the put_listen_key requests and how each ended
    \* ---- the callbacks of client code
    tasks,          \* callbacks handed to SingleTask.run that have not run yet
    ran,            \* the callbacks that have run: which one, and run by what
    \* ---- the broker's side of exchanges and queues
    declared,       \* the exchanges declared at the broker
    brokerOps,      \* the publish, bind and consume operations sent to the broker
    \* ---- the position requests of BinanceFutureTrade, one by one
    vpos,           \* per session, the position the venue holds for the symbol
    flights         \* per session and get_position request: its answer, and how it ended

sessConst == <<venue, cidDigit>>

wsVars == <<ws, wsConns, inbox>>

venueVars == <<vord, vEvents, venueTodo, vsub, missed>>

localVars == <<orders, subOk, _ok, listenKey>>

logVars == <<rcvd, arrivals, nHandled, reports, initLog, began, ended, reconciledConn>>

sessVars == <<sessConst, wsVars, venueVars, localVars, logVars, handlers, cc>>

callVars == <<call, requests, responses, cancelled, twoParts>>

ctorVars == <<built, kwargs, facade, loopTasks, assetSubs>>

posVars == <<_position, polls, polling, snaps, posReports>>

copyVars == <<objs, dicts, _assets, held, mutations>>

evtVars == <<pub, body, intact, sub, got>>

dispVars == <<tasks, ran>>

wireVars == <<declared, brokerOps>>

pollVars == <<vpos, flights>>

extVars == <<callVars, ctorVars, confirmed, posVars, copyVars, evtVars, putLog, dispVars,
            wireVars, pollVars>>

notCall == <<busVars, sessVars, ctorVars, confirmed, posVars, copyVars, evtVars, putLog,
             dispVars, wireVars, pollVars>>

notBus == <<sessVars, extVars>>

notSess == <<busVars, extVars>>

notWire == <<busVars, sessVars, callVars, ctorVars, confirmed, posVars, copyVars, evtVars,
             putLog, dispVars, pollVars>>

vars == <<busVars, sessVars, extVars>>

Count(seq, x) == Cardinality({j \in DOMAIN seq : seq[j] = x})

RemoveAt(seq, j) == SubSeq(seq, 1, j - 1) \o SubSeq(seq, j + 1, Len(seq))

(***************************************************************************)
(* EventCenter.__init__, followed by initialize(): the first connect() is  *)
(* in flight, awaiting aioamqp.connect.                                    *)
(***************************************************************************)
InitBus ==
    /\ connected = FALSE
    /\ channel = NoChannel
    /\ subscribers = <<>>
    /\ event_handler = [k \in Keys |-> <<>>]
    /\ conns = <<[pc |-> "dial", reconnect |-> FALSE]>>
    /\ timer = FALSE
    /\ passes = <<>>
    /\ cbTasks = <<>>
    /\ chCount = 0
    /\ openCh = {}
    /\ knownAtInstall = 0
    /\ bound = [c \in 1..MaxChannels |-> <<>>]
    /\ msgCount = 0
    /\ received = <<>>
    /\ acks = <<>>
    /\ handled = {}
    /\ pubCount = 0
    /\ sent = {}
    /\ dropped = {}


(***************************************************************************)
(* EventCenter.subscribe: stores the request, nothing else.               *)
(***************************************************************************)
Subscribe(k, m) ==
    /\ Len(subscribers) < MaxSubs
    /\ subscribers' = Append(subscribers, [key |-> k, multi |-> m])
    /\ UNCHANGED <<connected, channel, event_handler, conns, timer, passes, chCount,
                   openCh, knownAtInstall, bound, pubVars, dlvVars>>
    /\ UNCHANGED notBus

\* publish() as it would be if an event published while not connected were kept
\* and flushed by the next publish on a live connection.
PublishRetained ==
    /\ pubCount < MaxPubs
    /\ pubCount' = pubCount + 1
    /\ IF ~connected
          THEN /\ dropped' = dropped \cup {pubCount + 1}
               /\ sent' = sent
          ELSE /\ dropped' = dropped
               /\ sent' = IF channel \in openCh
                             THEN sent \cup {pubCount + 1} \cup dropped
                             ELSE sent
    /\ UNCHANGED <<connected, channel, subscribers, event_handler, conns, timer,
                   passes, chCount, openCh, knownAtInstall, bound, dlvVars>>
    /\ UNCHANGED notBus

(***************************************************************************)
(* EventCenter.publish: returns with a warning when not connected;         *)
(* otherwise basic_publish on self._channel, which raises on a closed      *)
(* channel (nothing is transmitted then either).                           *)
(***************************************************************************)
Publish ==
    /\ pubCount < MaxPubs
    /\ pubCount' = pubCount + 1
    /\ IF ~connected
          THEN /\ dropped' = dropped \cup {pubCount + 1}
               /\ sent' = sent
          ELSE /\ dropped' = dropped
               /\ sent' = IF channel \in openCh THEN sent \cup {pubCount + 1} ELSE sent
    /\ UNCHANGED <<connected, channel, subscribers, event_handler, conns, timer,
                   passes, chCount, openCh, knownAtInstall, bound, dlvVars>>
    /\ UNCHANGED notBus

(***************************************************************************)
(* EventCenter._check_connection, the periodic health check.  It starts to *)
(* fire once initialize() (run_until_complete of the first connect) has    *)
(* returned.                                                               *)
(***************************************************************************)
InitialConnectDone == \A t \in DOMAIN conns : conns[t].reconnect

\* _check_connection as it would be if it looked at self._connected only, and
\* not at the channel.
CheckConnectionFlagOnly ==
    /\ InitialConnectDone
    /\ IF connected
          THEN UNCHANGED <<connected, channel, event_handler, conns>>
          ELSE /\ Len(conns) < MaxConnects
               /\ connected' = FALSE
               /\ channel' = NoChannel
               /\ event_handler' = [k \in Keys |-> <<>>]
               /\ conns' = Append(conns, [pc |-> "dial", reconnect |-> TRUE])
    /\ UNCHANGED <<subscribers, timer, passes, chCount, openCh, knownAtInstall, bound,
                   pubVars, dlvVars>>
    /\ UNCHANGED notBus

CheckConnection ==
    /\ InitialConnectDone
    /\ IF connected /\ channel # NoChannel /\ channel \in openCh
          THEN UNCHANGED <<connected, channel, event_handler, conns>>
          ELSE /\ Len(conns) < MaxConnects
               /\ connected' = FALSE
               /\ channel' = NoChannel
               /\ event_handler' = [k \in Keys |-> <<>>]
               /\ conns' = Append(conns, [pc |-> "dial", reconnect |-> TRUE])
    /\ UNCHANGED <<subscribers, timer, passes, chCount, openCh, knownAtInstall, bound,
                   pubVars, dlvVars>>
    /\ UNCHANGED notBus

(***************************************************************************)
(* EventCenter.connect, first part: `await aioamqp.connect(...)' returns.  *)
(* It raises (the attempt ends), or it succeeds and the `finally' clause   *)
(* abandons the attempt when a connection is already installed; otherwise  *)
(* the coroutine goes on to `await protocol.channel()'.                    *)
(***************************************************************************)
ConnectDial(t, ok) ==
    /\ t \in DOMAIN conns
    /\ conns[t].pc = "dial"
    /\ conns' = IF ok /\ ~connected
                   THEN [conns EXCEPT ![t].pc = "chan"]
                   ELSE RemoveAt(conns, t)
    /\ UNCHANGED <<connected, channel, subscribers, event_handler, timer, passes,
                   chCount, openCh, knownAtInstall, bound, pubVars, dlvVars>>
    /\ UNCHANGED notBus

(***************************************************************************)
(* EventCenter.connect, second part: `await protocol.channel()' returns    *)
(* and the new channel is installed.                                       *)
(***************************************************************************)
ConnectInstall(t) ==
    /\ t \in DOMAIN conns
    /\ conns[t].pc = "chan"
    /\ chCount < MaxChannels
    /\ chCount' = chCount + 1
    /\ openCh' = openCh \cup {chCount + 1}
    /\ channel' = chCount + 1
    /\ connected' = TRUE
    /\ knownAtInstall' = Len(subscribers)
    /\ conns' = [conns EXCEPT ![t].pc = "declare"]
    /\ UNCHANGED <<subscribers, event_handler, timer, passes, bound, pubVars, dlvVars>>
    /\ UNCHANGED notBus

\* A do_them() coroutine that SingleTask.run has scheduled and that has not run yet.
NewPass == [i |-> 1, phase |-> "bind"]

(***************************************************************************)
(* EventCenter.connect, third part: the exchanges are declared on          *)
(* self._channel (an exception ends the coroutine when that channel is     *)
(* gone); then a reconnect starts the bind pass at once and the first      *)
(* connect schedules it 5 seconds later.                                   *)
(***************************************************************************)
ConnectDeclare(t) ==
    /\ t \in DOMAIN conns
    /\ conns[t].pc = "declare"
    /\ conns' = RemoveAt(conns, t)
    /\ IF channel = NoChannel \/ channel \notin openCh
          THEN UNCHANGED <<passes, timer>>
          ELSE IF conns[t].reconnect
                  THEN /\ passes' = Append(passes, NewPass)
                       /\ timer' = timer
                  ELSE /\ timer' = TRUE
                       /\ passes' = passes
    /\ UNCHANGED <<connected, channel, subscribers, event_handler, chCount, openCh,
                   knownAtInstall, bound, pubVars, dlvVars>>
    /\ UNCHANGED notBus

(***************************************************************************)
(* The call_later(5, self._bind_and_consume) of the first connect fires:   *)
(* _bind_and_consume schedules do_them().                                  *)
(***************************************************************************)
BindTimerFires ==
    /\ timer
    /\ timer' = FALSE
    /\ passes' = Append(passes, NewPass)
    /\ UNCHANGED <<connected, channel, subscribers, event_handler, conns, chCount,
                   openCh, knownAtInstall, bound, pubVars, dlvVars>>
    /\ UNCHANGED notBus

\* The `for' of do_them() after item p.i: the next item, or the end of the list.
PassAfterItem(p) ==
    IF passes[p].i + 1 > Len(subscribers)
       THEN RemoveAt(passes, p)
       ELSE [passes EXCEPT ![p] = [i |-> passes[p].i + 1, phase |-> "bind"]]

\* EventCenter._add_event_handler
AddEventHandler(table, k, cb) == [table EXCEPT ![k] = Append(@, cb)]

(***************************************************************************)
(* EventCenter._initialize for item i of a bind pass, up to the return of  *)
(* basic_consume: queue_declare, queue_bind, basic_qos and basic_consume   *)
(* on self._channel.  With no channel, or a closed one, the call raises    *)
(* and SingleTask swallows the exception: the pass ends.  A multi          *)
(* subscription is complete here; an exact-match one still has to          *)
(* register its handler.                                                   *)
(***************************************************************************)
PassBind(p) ==
    /\ p \in DOMAIN passes
    /\ passes[p].phase = "bind"
    /\ LET i == passes[p].i IN
       IF i > Len(subscribers) \/ channel = NoChannel \/ channel \notin openCh
          THEN /\ passes' = RemoveAt(passes, p)
               /\ bound' = bound
          ELSE /\ bound' = [bound EXCEPT ![channel] = Append(@, i)]
               /\ passes' = IF subscribers[i].multi
                               THEN PassAfterItem(p)
                               ELSE [passes EXCEPT ![p].phase = "handler"]
    /\ UNCHANGED <<connected, channel, subscribers, event_handler, conns, timer,
                   chCount, openCh, knownAtInstall, pubVars, dlvVars>>
    /\ UNCHANGED notBus

(***************************************************************************)
(* EventCenter._initialize, after basic_consume has returned:              *)
(* self._add_event_handler(event, callback), then the next item.           *)
(***************************************************************************)
PassAddHandler(p) ==
    /\ p \in DOMAIN passes
    /\ passes[p].phase = "handler"
    /\ event_handler' = AddEventHandler(event_handler, subscribers[passes[p].i].key,
                                        passes[p].i)
    /\ passes' = PassAfterItem(p)
    /\ UNCHANGED <<connected, channel, subscribers, conns, timer, chCount, openCh,
                   knownAtInstall, bound, pubVars, dlvVars>>
    /\ UNCHANGED notBus

\* Channel c consumes the exact-match queue of key k.
ExactConsumer(c, k) ==
    \E j \in DOMAIN bound[c] :
        /\ subscribers[bound[c][j]].key = k
        /\ ~subscribers[bound[c][j]].multi

\* The result of `await self._channel.basic_client_ack(...)' for message m that
\* was delivered on channel c: the ack reaches the broker on the channel the bus
\* holds now; with no channel, or a closed one, the call raises.
ClientAck(m, c) ==
    IF channel # NoChannel /\ channel \in openCh
       THEN Append(acks, [msg |-> m, on |-> channel, from |-> c])
       ELSE acks

\* The callbacks _on_consume_event_msg schedules for key k; a missing key raises
\* KeyError and nothing is scheduled.
Dispatched(m, k) ==
    [j \in 1..Len(event_handler[k]) |-> [msg |-> m, cb |-> event_handler[k][j]]]

(***************************************************************************)
(* EventCenter._on_consume_event_msg: the broker delivers a message with   *)
(* key k on channel c to the exact-match consumer.                         *)
(***************************************************************************)
OnConsumeEventMsg(c, k) ==
    /\ msgCount < MaxMsgs
    /\ c \in openCh
    /\ ExactConsumer(c, k)
    /\ msgCount' = msgCount + 1
    /\ cbTasks' = cbTasks \o Dispatched(msgCount + 1, k)
    /\ received' = Append(received, [key |-> k, ch |-> c,
                                     funcs |-> event_handler[k],
                                     held |-> channel])
    /\ acks' = ClientAck(msgCount + 1, c)
    /\ UNCHANGED <<connected, channel, subscribers, event_handler, conns, timer,
                   passes, chCount, openCh, knownAtInstall, bound, handled, pubVars>>
    /\ UNCHANGED notBus

(***************************************************************************)
(* The event loop runs the oldest scheduled Event.callback task: loads,    *)
(* parse and the subscriber's callback.  It completes, or it raises and    *)
(* the exception is swallowed by the task (ok = FALSE).                    *)
(***************************************************************************)
RunCallback(ok) ==
    /\ cbTasks # <<>>
    /\ cbTasks' = Tail(cbTasks)
    /\ handled' = IF ok THEN handled \cup {<<Head(cbTasks).msg, Head(cbTasks).cb>>}
                        ELSE handled
    /\ UNCHANGED <<connected, channel, subscribers, event_handler, conns, timer,
                   passes, chCount, openCh, knownAtInstall, bound, msgCount, received,
                   acks, pubVars>>
    /\ UNCHANGED notBus

(***************************************************************************)
(* The transport of channel c is lost; the broker cancels its consumers.   *)
(***************************************************************************)
ChannelLost(c) ==
    /\ c \in openCh
    /\ openCh' = openCh \ {c}
    /\ bound' = [bound EXCEPT ![c] = <<>>]
    /\ UNCHANGED <<connected, channel, subscribers, event_handler, conns, timer,
                   passes, chCount, knownAtInstall, pubVars, dlvVars>>
    /\ UNCHANGED notBus

\* The connection lifecycle: health check, connect, bind pass, transport loss.
BusLifecycle ==
    \/ CheckConnection
    \/ \E t \in 1..MaxConnects, ok \in BOOLEAN : ConnectDial(t, ok)
    \/ \E t \in 1..MaxConnects : ConnectInstall(t)
    \/ \E t \in 1..MaxConnects : ConnectDeclare(t)
    \/ BindTimerFires
    \/ \E p \in 1..(MaxConnects + 1) : PassBind(p)
    \/ \E p \in 1..(MaxConnects + 1) : PassAddHandler(p)
    \/ \E c \in 1..MaxChannels : ChannelLost(c)

BusSubscribe == \E k \in Keys, m \in BOOLEAN : Subscribe(k, m)

BusDeliver ==
    \/ \E c \in 1..MaxChannels, k \in Keys : OnConsumeEventMsg(c, k)
    \/ \E ok \in BOOLEAN : RunCallback(ok)

BusNext == BusLifecycle \/ BusSubscribe \/ BusDeliver \/ Publish

(***************************************************************************)
(*                         Trading sessions                                *)
(***************************************************************************)

Venues == {"binance", "binance_future", "okex_future", "okex_margin"}

IsBinance(v) == v \in {"binance", "binance_future"}

IsOKEx(v) == v \in {"okex_future", "okex_margin"}

Sessions == 1..NumSessions

Orders == 1..MaxOrders

\* The lock as it would be if every call of the handler named a lock of its own.
LockKeyPerCall(h) == ToString(h.seq)

\* What process()/process_binary() waits on: the name given to
\* async_method_locker, one string per class.
LockKey(h) ==
    IF venue[h.s] = "binance" THEN "process.locker"
    ELSE IF venue[h.s] = "binance_future" THEN "BinanceTrade.process.locker"
    ELSE IF venue[h.s] = "okex_future" THEN "OKExFutureTrade.process_binary.locker"
    ELSE "OKExMarginTrade.process_binary.locker"

\* The status strings of the venues, in the order an order moves through them.
BinanceCodes ==
    <<"NEW", "PARTIALLY_FILLED", "PENDING_CANCEL",
      "FILLED", "CANCELED", "REJECTED", "EXPIRED">>

OKExCodes == <<"3", "0", "1", "4", "2", "-1", "-2">>

VenueCodes(v) ==
    IF IsBinance(v) THEN {BinanceCodes[j] : j \in DOMAIN BinanceCodes}
                    ELSE {OKExCodes[j] : j \in DOMAIN OKExCodes}

\* How far an order with the given code has moved: 0 not placed, 1 being
\* submitted, 2 resting, 3 partly filled, 4 being cancelled, 5 finished.
Rank(c) ==
    IF c = "none" THEN 0
    ELSE IF c = "3" THEN 1
    ELSE IF c \in {"NEW", "0"} THEN 2
    ELSE IF c \in {"PARTIALLY_FILLED", "1"} THEN 3
    ELSE IF c \in {"PENDING_CANCEL", "4"} THEN 4
    ELSE 5

OpenAtVenue(c) == Rank(c) \in 1..4

TerminalAtVenue(c) == Rank(c) = 5

\* The status table of BinanceTrade (connected_callback and process).
BinanceStatus(x) ==
    IF x = "NEW" THEN "SUBMITTED"
    ELSE IF x = "PARTIALLY_FILLED" THEN "PARTIAL_FILLED"
    ELSE IF x = "FILLED" THEN "FILLED"
    ELSE IF x = "CANCELED" THEN "CANCELED"
    ELSE IF x = "REJECTED" THEN "FAILED"
    ELSE IF x = "EXPIRED" THEN "FAILED"
    ELSE "NONE"

\* The status table of BinanceFutureTrade (connected_callback and _update_order).
BinanceFutureStatus(x) ==
    IF x = "NEW" THEN "SUBMITTED"
    ELSE IF x = "PARTIAL_FILLED" THEN "PARTIAL_FILLED"
    ELSE IF x = "FILLED" THEN "FILLED"
    ELSE IF x = "CANCELED" THEN "CANCELED"
    ELSE IF x = "REJECTED" THEN "FAILED"
    ELSE IF x = "EXPIRED" THEN "FAILED"
    ELSE "NONE"

\* The status table of OKExFutureTrade._update_order and
\* OKExMarginTrade._update_order.
OKExStatus(x) ==
    IF x = "-2" THEN "FAILED"
    ELSE IF x = "-1" THEN "CANCELED"
    ELSE IF x = "0" THEN "SUBMITTED"
    ELSE IF x = "1" THEN "PARTIAL_FILLED"
    ELSE IF x = "2" THEN "FILLED"
    ELSE "NONE"

OrderStatus(v, x) ==
    IF v = "binance" THEN BinanceStatus(x)
    ELSE IF v = "binance_future" THEN BinanceFutureStatus(x)
    ELSE OKExStatus(x)

\* Whether the handler takes the order out of self._orders after the update.
Popped(v, x) ==
    IF v = "okex_future" THEN x \in {"-1", "2"}
    ELSE IF v = "okex_margin"
            THEN OrderStatus(v, x) \in {"FAILED", "CANCELED", "FILLED"}
    ELSE FALSE

NoOrders == [o \in Orders |-> "absent"]

NoSnapshot == [o \in Orders |-> "none"]

Frame(k, o, c) == [kind |-> k, id |-> o, code |-> c]

SessionVarsInit(vs, digits) ==
    /\ venue = vs
    /\ cidDigit = digits
    /\ ws = [s \in Sessions |-> IF IsBinance(vs[s]) THEN "init"
                                 ELSE IF IsOKEx(vs[s]) THEN "connecting"
                                 ELSE "dead"]
    /\ wsConns = [s \in Sessions |-> 0]
    /\ inbox = [s \in Sessions |-> <<>>]
    /\ handlers = <<>>
    /\ cc = [s \in Sessions |-> <<>>]
    /\ orders = [s \in Sessions |-> NoOrders]
    /\ subOk = [s \in Sessions |-> [order |-> FALSE, position |-> FALSE]]
    /\ _ok = [s \in Sessions |-> FALSE]
    /\ listenKey = [s \in Sessions |-> FALSE]
    /\ vord = [s \in Sessions |-> NoSnapshot]
    /\ vEvents = [s \in Sessions |-> 0]
    /\ venueTodo = [s \in Sessions |-> <<>>]
    /\ vsub = [s \in Sessions |-> FALSE]
    /\ rcvd = [s \in Sessions |-> 0]
    /\ arrivals = [s \in Sessions |-> <<>>]
    /\ nHandled = [s \in Sessions |-> 0]
    /\ reports = [s \in Sessions |-> <<>>]
    /\ initLog = [s \in Sessions |-> <<>>]
    /\ began = [s \in Sessions |-> <<>>]
    /\ ended = [s \in Sessions |-> <<>>]
    /\ missed = [s \in Sessions |-> {}]
    /\ reconciledConn = [s \in Sessions |-> 0]

AllDigits == [s \in Sessions |-> [o \in Orders |-> TRUE]]

\* No Trade object has been constructed.
NoSessions == SessionVarsInit([s \in Sessions |-> "none"], AllDigits)

\* The client order ids a session can meet: BinanceFutureTrade is the one class
\* that parses them, the orders of the account need not be its own.
ClientIds(v) ==
    IF v = "binance_future" THEN [Orders -> BOOLEAN] ELSE {[o \in Orders |-> TRUE]}

\* One Trade object, of any venue.
InitSession ==
    \E v \in Venues : \E d \in ClientIds(v) :
        SessionVarsInit([s \in Sessions |-> IF s = 1 THEN v ELSE "none"],
                        [s \in Sessions |-> IF s = 1 THEN d
                                            ELSE [o \in Orders |-> TRUE]])

\* What the venue returns for its open orders when asked now.
Snapshot(s) ==
    [o \in Orders |-> IF OpenAtVenue(vord[s][o]) THEN vord[s][o] ELSE "none"]

InitResult(s, r) == [initLog EXCEPT ![s] = Append(@, r)]

(***************************************************************************)
(* BinanceTrade._init_websocket / BinanceFutureTrade._init_websocket: the  *)
(* listen key is fetched over REST; on an error the init callback gets     *)
(* False and no stream is opened.                                          *)
(***************************************************************************)
InitWebsocket(s, success) ==
    /\ ws[s] = "init"
    /\ IF success
          THEN /\ listenKey' = [listenKey EXCEPT ![s] = TRUE]
               /\ ws' = [ws EXCEPT ![s] = "connecting"]
               /\ initLog' = initLog
          ELSE /\ listenKey' = listenKey
               /\ ws' = [ws EXCEPT ![s] = "dead"]
               /\ initLog' = InitResult(s, FALSE)
    /\ UNCHANGED <<sessConst, wsConns, inbox, venueVars, orders, subOk, _ok,
                   rcvd, arrivals, nHandled, reports, began, ended,
                   reconciledConn, handlers, cc>>
    /\ UNCHANGED notSess

(***************************************************************************)
(* The stream is opened, for the first time or again by the periodic check *)
(* of the Websocket, and connected_callback() runs up to its first await:  *)
(* the Binance classes ask over REST for the open orders, the OKEx classes *)
(* send the login request.                                                 *)
(***************************************************************************)
WsConnected(s) ==
    /\ ws[s] \in {"connecting", "lost"}
    /\ wsConns[s] < MaxWsConns
    /\ ws' = [ws EXCEPT ![s] = "open"]
    /\ wsConns' = [wsConns EXCEPT ![s] = @ + 1]
    /\ IF IsBinance(venue[s])
          THEN /\ cc' = [cc EXCEPT ![s] =
                           Append(@, [snap |-> Snapshot(s), conn |-> wsConns[s] + 1])]
               /\ venueTodo' = venueTodo
          ELSE /\ cc' = cc
               /\ venueTodo' = [venueTodo EXCEPT ![s] = <<"login">>]
    /\ UNCHANGED <<sessConst, inbox, vord, vEvents, vsub, missed, localVars,
                   logVars, handlers>>
    /\ UNCHANGED notSess

\* The stream connection breaks: what was in flight on it is gone, and so are
\* the login and the subscriptions of the connection.
WsLost(s) ==
    /\ ws[s] = "open"
    /\ ws' = [ws EXCEPT ![s] = "lost"]
    /\ inbox' = [inbox EXCEPT ![s] = <<>>]
    /\ venueTodo' = [venueTodo EXCEPT ![s] = <<>>]
    /\ vsub' = [vsub EXCEPT ![s] = FALSE]
    /\ UNCHANGED <<sessConst, wsConns, vord, vEvents, missed, localVars, logVars,
                   handlers, cc>>
    /\ UNCHANGED notSess

\* The venue answers a login or a subscribe request of an OKEx session.
VenueReply(s, success) ==
    /\ ws[s] = "open"
    /\ venueTodo[s] # <<>>
    /\ LET req == Head(venueTodo[s])
           reply == IF req = "login"
                       THEN Frame("login", 0, IF success THEN "ok" ELSE "fail")
                       ELSE Frame(IF success THEN "subscribe" ELSE "error", 0, req)
       IN /\ inbox' = [inbox EXCEPT ![s] = Append(@, reply)]
          /\ vsub' = [vsub EXCEPT ![s] = @ \/ (req = "order" /\ success)]
    /\ venueTodo' = [venueTodo EXCEPT ![s] = Tail(@)]
    /\ UNCHANGED <<sessConst, ws, wsConns, vord, vEvents, missed, localVars,
                   logVars, handlers, cc>>
    /\ UNCHANGED notSess

\* The venue streams order updates on an open Binance user-data stream, and on
\* an OKEx stream once the order channel is subscribed.
Streaming(s) ==
    /\ ws[s] = "open"
    /\ IsOKEx(venue[s]) => vsub[s]

\* An order of the account moves on at the venue.
VenueOrderEvent(s, o, c) ==
    /\ venue[s] # "none"
    /\ ws[s] # "dead"
    /\ vEvents[s] < MaxVenueEvents
    /\ c \in VenueCodes(venue[s])
    /\ Rank(c) > Rank(vord[s][o])
    /\ vEvents' = [vEvents EXCEPT ![s] = @ + 1]
    /\ vord' = [vord EXCEPT ![s][o] = c]
    /\ inbox' = IF Streaming(s)
                   THEN [inbox EXCEPT ![s] = Append(@, Frame("order", o, c))]
                   ELSE inbox
    /\ missed' = IF ws[s] = "lost" /\ TerminalAtVenue(c)
                    THEN [missed EXCEPT ![s] = @ \cup {o}]
                    ELSE missed
    /\ UNCHANGED <<sessConst, ws, wsConns, venueTodo, vsub, localVars, logVars,
                   handlers, cc>>
    /\ UNCHANGED notSess

NewHandler(s, f) ==
    [s |-> s, seq |-> rcvd[s] + 1, conn |-> wsConns[s], frame |-> f, pc |-> "wait",
     snap |-> NoSnapshot]

\* The receive loop of the Websocket reads the next frame and starts a
\* process()/process_binary() coroutine for it.
Receive(s) ==
    /\ ws[s] = "open"
    /\ inbox[s] # <<>>
    /\ inbox' = [inbox EXCEPT ![s] = Tail(@)]
    /\ rcvd' = [rcvd EXCEPT ![s] = @ + 1]
    /\ handlers' = Append(handlers, NewHandler(s, Head(inbox[s])))
    /\ arrivals' = IF Head(inbox[s]).kind = "order"
                      THEN [arrivals EXCEPT ![s] = Append(@, Head(inbox[s]))]
                      ELSE arrivals
    /\ UNCHANGED <<sessConst, ws, wsConns, venueVars, localVars, nHandled,
                   reports, initLog, began, ended, reconciledConn, cc>>
    /\ UNCHANGED notSess

(***************************************************************************)
(* async_method_locker(name): a coroutine enters when no coroutine that    *)
(* asked earlier for the lock of the same name is still inside or waiting. *)
(***************************************************************************)
MayEnter(j) ==
    \A i \in 1..(j - 1) : LockKey(handlers[i]) # LockKey(handlers[j])

\* self._orders after process()/_update_order() took an update with a status it
\* knows.
\* An update that changes the orders the map holds already, and no other.
ApplyOrderIfKnown(v, m, o, x) ==
    IF m[o] = "absent" \/ Popped(v, x) THEN [m EXCEPT ![o] = "absent"]
                                       ELSE [m EXCEPT ![o] = OrderStatus(v, x)]

ApplyOrder(v, m, o, x) ==
    IF Popped(v, x) THEN [m EXCEPT ![o] = "absent"]
                    ELSE [m EXCEPT ![o] = OrderStatus(v, x)]

\* Whether the update reaches the order-update callback: the status is known,
\* and in BinanceFutureTrade int(order_no[-1]) does not raise.
Reported(v, digits, o, x) ==
    /\ OrderStatus(v, x) # "NONE"
    /\ v = "binance_future" => digits[o]

Began(s, n) == [began EXCEPT ![s] = Append(@, n)]

Ended(s, n) == [ended EXCEPT ![s] = Append(@, n)]

(***************************************************************************)
(* process() / process_binary() on an order update.                        *)
(***************************************************************************)
ProcessOrder(j) ==
    /\ j \in DOMAIN handlers
    /\ handlers[j].pc = "wait"
    /\ handlers[j].frame.kind = "order"
    /\ MayEnter(j)
    /\ LET s == handlers[j].s
           o == handlers[j].frame.id
           x == handlers[j].frame.code
           v == venue[s]
       IN /\ orders' = IF OrderStatus(v, x) = "NONE" THEN orders
                       ELSE [orders EXCEPT ![s] = ApplyOrder(v, @, o, x)]
          /\ reports' = IF Reported(v, cidDigit[s], o, x)
                           THEN [reports EXCEPT ![s] =
                                    Append(@, [id |-> o, status |-> OrderStatus(v, x)])]
                           ELSE reports
          /\ nHandled' = [nHandled EXCEPT ![s] = @ + 1]
          /\ began' = Began(s, handlers[j].seq)
          /\ ended' = Ended(s, handlers[j].seq)
    /\ handlers' = RemoveAt(handlers, j)
    /\ UNCHANGED <<sessConst, wsVars, venueVars, subOk, _ok, listenKey, rcvd,
                   arrivals, initLog, reconciledConn, cc>>
    /\ UNCHANGED notSess

(***************************************************************************)
(* process_binary() on the login reply: a refused login ends with the init *)
(* callback False; an accepted one asks over REST for the open orders and  *)
(* waits for the answer inside the lock.                                   *)
(***************************************************************************)
ProcessLogin(j) ==
    /\ j \in DOMAIN handlers
    /\ handlers[j].pc = "wait"
    /\ handlers[j].frame.kind = "login"
    /\ MayEnter(j)
    /\ LET s == handlers[j].s
       IN /\ began' = Began(s, handlers[j].seq)
          /\ IF handlers[j].frame.code = "ok"
                THEN /\ handlers' = [handlers EXCEPT ![j].pc = "orders",
                                                     ![j].snap = Snapshot(s)]
                     /\ UNCHANGED <<initLog, ended>>
                ELSE /\ handlers' = RemoveAt(handlers, j)
                     /\ initLog' = InitResult(s, FALSE)
                     /\ ended' = Ended(s, handlers[j].seq)
    /\ UNCHANGED <<sessConst, wsVars, venueVars, localVars, rcvd, arrivals,
                   nHandled, reports, reconciledConn, cc>>
    /\ UNCHANGED notSess

\* The loop over the open orders the REST call returned, each through
\* _update_order().
RECURSIVE SeedOKEx(_, _, _, _)
SeedOKEx(v, snap, o, m) ==
    IF o > MaxOrders THEN m
    ELSE SeedOKEx(v, snap, o + 1,
                  IF snap[o] = "none" \/ OrderStatus(v, snap[o]) = "NONE"
                     THEN m
                     ELSE ApplyOrder(v, m, o, snap[o]))

\* ws.send_json of a subscribe request; nothing goes out on a closed stream.
SendSubscribe(s, chans) ==
    IF ws[s] = "open" THEN [venueTodo EXCEPT ![s] = @ \o chans] ELSE venueTodo

\* The open-order REST call of the login handling returns.
RestOrdersReturn(j, success) ==
    /\ j \in DOMAIN handlers
    /\ handlers[j].pc = "orders"
    /\ LET s == handlers[j].s
       IN IF ~success
             THEN /\ initLog' = InitResult(s, FALSE)
                  /\ handlers' = RemoveAt(handlers, j)
                  /\ ended' = Ended(s, handlers[j].seq)
                  /\ UNCHANGED <<orders, venueTodo, reconciledConn>>
             ELSE /\ orders' = [orders EXCEPT ![s] =
                                   SeedOKEx(venue[s], handlers[j].snap, 1, @)]
                  /\ reconciledConn' = [reconciledConn EXCEPT ![s] = handlers[j].conn]
                  /\ initLog' = initLog
                  /\ IF venue[s] = "okex_future"
                        THEN /\ handlers' = [handlers EXCEPT ![j].pc = "position"]
                             /\ UNCHANGED <<venueTodo, ended>>
                        ELSE /\ handlers' = RemoveAt(handlers, j)
                             /\ venueTodo' = SendSubscribe(s, <<"order">>)
                             /\ ended' = Ended(s, handlers[j].seq)
    /\ UNCHANGED <<sessConst, wsVars, vord, vEvents, vsub, missed, subOk, _ok,
                   listenKey, rcvd, arrivals, nHandled, reports, began, cc>>
    /\ UNCHANGED notSess

\* The position REST call of OKExFutureTrade's login handling returns.
RestPositionReturn(j, success) ==
    /\ j \in DOMAIN handlers
    /\ handlers[j].pc = "position"
    /\ LET s == handlers[j].s
       IN /\ initLog' = IF success THEN initLog ELSE InitResult(s, FALSE)
          /\ venueTodo' = IF success THEN SendSubscribe(s, <<"order", "position">>)
                                     ELSE venueTodo
          /\ ended' = Ended(s, handlers[j].seq)
    /\ handlers' = RemoveAt(handlers, j)
    /\ UNCHANGED <<sessConst, wsVars, vord, vEvents, vsub, missed, localVars,
                   rcvd, arrivals, nHandled, reports, began, reconciledConn, cc>>
    /\ UNCHANGED notSess

(***************************************************************************)
(* process_binary() on a subscribe reply.  OKExFutureTrade reports True    *)
(* once both flags are set; OKExMarginTrade reports True for the order     *)
(* channel and False for any other.  An error event matches no branch.     *)
(***************************************************************************)
ProcessSubscribe(j) ==
    /\ j \in DOMAIN handlers
    /\ handlers[j].pc = "wait"
    /\ handlers[j].frame.kind \in {"subscribe", "error"}
    /\ MayEnter(j)
    /\ LET s == handlers[j].s
           chan == handlers[j].frame.code
           flags == [order |-> subOk[s].order \/ chan = "order",
                     position |-> subOk[s].position \/ chan = "position"]
       IN /\ began' = Began(s, handlers[j].seq)
          /\ confirmed' = IF handlers[j].frame.kind = "subscribe"
                             THEN [confirmed EXCEPT ![s] = @ \cup
                                     {[conn |-> handlers[j].conn, channel |-> chan]}]
                             ELSE confirmed
          /\ ended' = Ended(s, handlers[j].seq)
          /\ IF handlers[j].frame.kind = "error"
                THEN UNCHANGED <<subOk, initLog>>
                ELSE IF venue[s] = "okex_future"
                        THEN /\ subOk' = [subOk EXCEPT ![s] = flags]
                             /\ initLog' = IF flags.order /\ flags.position
                                              THEN InitResult(s, TRUE)
                                              ELSE initLog
                        ELSE /\ subOk' = subOk
                             /\ initLog' = InitResult(s, chan = "order")
    /\ handlers' = RemoveAt(handlers, j)
    /\ UNCHANGED <<sessConst, wsVars, venueVars, orders, _ok, listenKey, rcvd,
                   arrivals, nHandled, reports, reconciledConn, cc>>
    /\ UNCHANGED <<busVars, callVars, ctorVars, posVars, copyVars, evtVars, putLog,
                   dispVars, wireVars, pollVars>>

\* The loop of connected_callback() over the open orders: an order with a status
\* outside the table is skipped, a known one replaces the entry of self._orders;
\* in BinanceFutureTrade int(clientOrderId[-1]) raises on a client id that does
\* not end with a digit, which ends the callback there.
RECURSIVE SeedBinance(_, _, _, _, _)
SeedBinance(v, digits, snap, o, m) ==
    IF o > MaxOrders THEN [orders |-> m, done |-> TRUE]
    ELSE IF snap[o] = "none" \/ OrderStatus(v, snap[o]) = "NONE"
            THEN SeedBinance(v, digits, snap, o + 1, m)
    ELSE IF v = "binance_future" /\ ~digits[o]
            THEN [orders |-> m, done |-> FALSE]
    ELSE SeedBinance(v, digits, snap, o + 1,
                     [m EXCEPT ![o] = OrderStatus(v, snap[o])])

(***************************************************************************)
(* connected_callback() of the Binance classes resumes with the answer of  *)
(* the open-order REST call.  It does not take the lock of process().      *)
(***************************************************************************)
ConnectedCallbackReturn(s, i, success) ==
    /\ i \in DOMAIN cc[s]
    /\ cc' = [cc EXCEPT ![s] = RemoveAt(@, i)]
    /\ IF ~success
          THEN /\ initLog' = InitResult(s, FALSE)
               /\ UNCHANGED <<orders, _ok, reconciledConn>>
          ELSE LET r == SeedBinance(venue[s], cidDigit[s], cc[s][i].snap, 1, orders[s])
               IN /\ orders' = [orders EXCEPT ![s] = r.orders]
                  /\ _ok' = IF r.done /\ venue[s] = "binance_future"
                               THEN [_ok EXCEPT ![s] = TRUE] ELSE _ok
                  /\ initLog' = IF r.done THEN InitResult(s, TRUE) ELSE initLog
                  /\ reconciledConn' = IF r.done
                                          THEN [reconciledConn EXCEPT ![s] = cc[s][i].conn]
                                          ELSE reconciledConn
    /\ UNCHANGED <<sessConst, wsVars, venueVars, subOk, listenKey, rcvd, arrivals,
                   nHandled, reports, began, ended, handlers>>
    /\ UNCHANGED notSess

(***************************************************************************)
(* The order-update callbacks the bootstrap loop makes for the open orders *)
(* the REST call returned, in order, each with the status of the order it  *)
(* is given, or "null" when it is given None.  The OKEx classes call the   *)
(* callback with copy.copy(order) for every order of the answer, whatever  *)
(* _update_order() returned; the Binance classes `continue' on a status    *)
(* outside their table.                                                    *)
(***************************************************************************)
RECURSIVE SeedCallbacks(_, _, _, _)
SeedCallbacks(v, digits, snap, o) ==
    IF o > MaxOrders THEN <<>>
    ELSE IF snap[o] = "none" THEN SeedCallbacks(v, digits, snap, o + 1)
    ELSE IF IsOKEx(v)
            THEN <<[id |-> o, status |-> IF OrderStatus(v, snap[o]) = "NONE"
                                            THEN "null"
                                            ELSE OrderStatus(v, snap[o])]>>
                 \o SeedCallbacks(v, digits, snap, o + 1)
    ELSE IF OrderStatus(v, snap[o]) = "NONE"
            THEN SeedCallbacks(v, digits, snap, o + 1)
    ELSE IF v = "binance_future" /\ ~digits[o] THEN <<>>
    ELSE <<[id |-> o, status |-> OrderStatus(v, snap[o])]>>
         \o SeedCallbacks(v, digits, snap, o + 1)

SessionNext ==
    \/ \E s \in Sessions, success \in BOOLEAN : InitWebsocket(s, success)
    \/ \E s \in Sessions : WsConnected(s)
    \/ \E s \in Sessions : WsLost(s)
    \/ \E s \in Sessions, success \in BOOLEAN : VenueReply(s, success)
    \/ \E s \in Sessions, o \in Orders :
          \E c \in VenueCodes(venue[s]) : VenueOrderEvent(s, o, c)
    \/ \E s \in Sessions : Receive(s)
    \/ \E j \in DOMAIN handlers : ProcessOrder(j)
    \/ \E j \in DOMAIN handlers : ProcessLogin(j)
    \/ \E j \in DOMAIN handlers, success \in BOOLEAN : RestOrdersReturn(j, success)
    \/ \E j \in DOMAIN handlers, success \in BOOLEAN : RestPositionReturn(j, success)
    \/ \E j \in DOMAIN handlers : ProcessSubscribe(j)
    \/ \E s \in Sessions, success \in BOOLEAN :
          \E i \in DOMAIN cc[s] : ConnectedCallbackReturn(s, i, success)

\* One trading session of any venue, its stream and its venue.
(***************************************************************************)
(*                 Construction of the Trade objects                       *)
(***************************************************************************)

Params ==
    {"account", "strategy", "symbol", "access_key", "secret_key", "passphrase",
     "init_success_callback", "asset_update_callback"}

\* The keyword arguments a strategy passes: all of them but a few.
KwArgs == {kw \in SUBSET Params : Cardinality(Params \ kw) <= MaxMissing}

\* The class the Trade facade picks for a platform name, of those modelled
\* here; "unknown" is its else branch.
FacadeClass(platform) ==
    IF platform \in {"binance", "okex_margin", "okex_future"} THEN platform
    ELSE "unknown"

\* The parameters whose absence sets `e` in __init__ of the class, the
\* passphrase check left out.
MissNoPassphrase(cls, kw) ==
    {"account", "strategy", "symbol", "access_key", "secret_key"} \ kw

\* The parameters whose absence sets `e` in __init__ of the class.
Miss(cls, kw) ==
    ({"account", "strategy", "symbol", "access_key", "secret_key"}
        \cup (IF IsOKEx(cls) THEN {"passphrase"} ELSE {})) \ kw

\* LoopRunTask.register calls of __init__: the listen-key reset of the
\* Binance classes and the position check of BinanceFutureTrade.
Registered(cls) ==
    IF cls = "binance" THEN {"_reset_listen_key"}
    ELSE IF cls = "binance_future" THEN {"_reset_listen_key", "_check_position_update"}
    ELSE {}

\* The state of sessions constructed with every parameter set.
Constructed ==
    /\ built = [s \in Sessions |-> IF venue[s] = "none" THEN "no" ELSE "ok"]
    /\ kwargs = [s \in Sessions |-> IF venue[s] = "none" THEN {} ELSE Params]
    /\ facade = [s \in Sessions |-> [platform |-> venue[s], direct |-> TRUE]]
    /\ loopTasks = [s \in Sessions |-> Registered(venue[s])]
    /\ assetSubs = [s \in Sessions |-> venue[s] # "none"]
    /\ confirmed = [s \in Sessions |-> {}]

\* Trade(platform=..., **kw), or T(**kw) for one of the classes T.
TradeInit(s, platform, kw, direct) ==
    LET cls == IF direct THEN platform ELSE FacadeClass(platform)
        started == cls # "unknown" /\ Miss(cls, kw) = {}
    IN
    /\ built[s] = "no"
    /\ direct => platform \in Venues
    /\ kw \in KwArgs
    /\ kwargs' = [kwargs EXCEPT ![s] = kw]
    /\ facade' = [facade EXCEPT ![s] = [platform |-> platform, direct |-> direct]]
    /\ IF started
          THEN /\ built' = [built EXCEPT ![s] = "ok"]
               /\ venue' = [venue EXCEPT ![s] = cls]
               /\ ws' = [ws EXCEPT ![s] = IF IsBinance(cls) THEN "init" ELSE "connecting"]
               /\ loopTasks' = [loopTasks EXCEPT ![s] = Registered(cls)]
               /\ assetSubs' = [assetSubs EXCEPT ![s] = "asset_update_callback" \in kw]
               /\ initLog' = initLog
          ELSE /\ built' = [built EXCEPT ![s] = "failed"]
               /\ initLog' = IF "init_success_callback" \in kw
                                THEN InitResult(s, FALSE) ELSE initLog
               /\ UNCHANGED <<venue, ws, loopTasks, assetSubs>>
    /\ UNCHANGED <<cidDigit, wsConns, inbox, venueVars, localVars, rcvd, arrivals,
                   nHandled, reports, began, ended, reconciledConn, handlers, cc>>
    /\ UNCHANGED <<busVars, callVars, confirmed, posVars, copyVars, evtVars, putLog,
                   dispVars, wireVars, pollVars>>

(***************************************************************************)
(*        BinanceFutureTrade._check_position_update, once a second         *)
(***************************************************************************)

\* Position(...): no quantity, no update time.
NewPosition ==
    [short_quantity |-> 0, short_avg_price |-> 0, long_quantity |-> 0,
     long_avg_price |-> 0, utime |-> FALSE]

\* Position.update(short_quantity, short_avg_price, long_quantity,
\* long_avg_price, ...): the values are replaced and the update time is set.
Update(sq, sp, lq, lp) ==
    [short_quantity |-> sq, short_avg_price |-> sp, long_quantity |-> lq,
     long_avg_price |-> lp, utime |-> TRUE]

\* What get_position returns about the symbol of the session: no entry, or
\* positionAmt and entryPrice.
PositionInfos ==
    {[entry |-> FALSE, positionAmt |-> 0, entryPrice |-> 0]}
        \cup {[entry |-> TRUE, positionAmt |-> a, entryPrice |-> IF a = 0 THEN 0 ELSE e] :
                 a \in -1..1, e \in 1..2}

Abs(x) == IF x < 0 THEN -x ELSE x

\* self._assets = {}: no Asset object yet.
NoAsset == 0

NoPolls ==
    /\ _position = [s \in Sessions |-> NewPosition]
    /\ polls = [s \in Sessions |-> 0]
    /\ polling = [s \in Sessions |-> 0]
    /\ snaps = [s \in Sessions |-> <<>>]
    /\ posReports = [s \in Sessions |-> <<>>]
    /\ objs = <<>>
    /\ dicts = <<>>
    /\ _assets = [s \in Sessions |-> NoAsset]
    /\ held = [s \in Sessions |-> {}]
    /\ mutations = 0

\* The quantity test of the poll, answering always yes.
ChangedAlways(size, p) == TRUE

\* The quantity test of the poll: the snapshot is not what the cache holds.
Changed(size, p) ==
    IF size > 0 THEN p.long_quantity # size
    ELSE IF size < 0 THEN p.short_quantity # Abs(size)
    ELSE p.long_quantity # 0 \/ p.short_quantity # 0

\* The Position the poll stores for a snapshot that passed the test.
Stored(info) ==
    IF info.positionAmt > 0 THEN Update(0, 0, info.positionAmt, info.entryPrice)
    ELSE IF info.positionAmt < 0 THEN Update(Abs(info.positionAmt), info.entryPrice, 0, 0)
    ELSE Update(0, 0, 0, 0)

\* The periodic task calls _check_position_update(): it returns at once
\* unless self._ok, and else asks for the positions.
CheckPositionUpdate(s) ==
    /\ venue[s] = "binance_future"
    /\ _ok[s]
    /\ polls[s] < MaxPolls
    /\ polls' = [polls EXCEPT ![s] = @ + 1]
    /\ polling' = [polling EXCEPT ![s] = @ + 1]
    /\ UNCHANGED <<_position, snaps, posReports>>
    /\ UNCHANGED <<busVars, sessVars, callVars, ctorVars, confirmed, copyVars, evtVars, putLog,
                   dispVars, wireVars>>

\* get_position returns: with an error the poll ends; else the first poll
\* resets the Position, `position_info["positionAmt"]` raises if the symbol has
\* no entry, and a snapshot that passed the test is stored and called back.
GetPositionReturn(s, success, info) ==
    /\ polling[s] > 0
    /\ info \in PositionInfos
    /\ polling' = [polling EXCEPT ![s] = @ - 1]
    /\ IF ~success
          THEN UNCHANGED <<_position, snaps, posReports>>
          ELSE LET first == ~_position[s].utime
                   p1 == IF first THEN Update(0, 0, 0, 0) ELSE _position[s]
                   raised == ~info.entry
                   changed == ~raised /\ Changed(info.positionAmt, p1)
                   p2 == IF changed THEN Stored(info) ELSE p1
               IN /\ snaps' = [snaps EXCEPT ![s] = Append(@, info)]
                  /\ _position' = [_position EXCEPT ![s] = p2]
                  /\ posReports' =
                        IF ~raised /\ (first \/ changed)
                           THEN [posReports EXCEPT ![s] =
                                   Append(@, [poll |-> Len(snaps[s]) + 1,
                                              was |-> _position[s], position |-> p2])]
                           ELSE posReports
    /\ UNCHANGED polls
    /\ UNCHANGED <<busVars, sessVars, callVars, ctorVars, confirmed, copyVars, evtVars, putLog,
                   dispVars, wireVars>>

PositionNext ==
    \/ \E s \in Sessions : CheckPositionUpdate(s) /\ UNCHANGED pollVars
    \/ \E s \in Sessions, success \in BOOLEAN, info \in PositionInfos :
          GetPositionReturn(s, success, info) /\ UNCHANGED pollVars

(***************************************************************************)
(* The position check with its requests told apart.  LoopRunTask calls     *)
(* _check_position_update every second whether or not an earlier call has  *)
(* returned, so several get_position requests can be in flight; the venue  *)
(* answers a request with the position it holds when the request is made,  *)
(* and the answers come back in any order.                                 *)
(***************************************************************************)

\* The venue holds no position.
Flat == [entry |-> TRUE, positionAmt |-> 0, entryPrice |-> 0]

NoFlights ==
    /\ vpos = [s \in Sessions |-> Flat]
    /\ flights = [s \in Sessions |-> <<>>]

\* The position of the account changes at the venue; what it does after the
\* last request of the run is of no account.
VenuePositionMoves(s, info) ==
    /\ venue[s] = "binance_future"
    /\ Len(flights[s]) < MaxPolls
    /\ info \in PositionInfos
    /\ info.entry
    /\ info # vpos[s]
    /\ vpos' = [vpos EXCEPT ![s] = info]
    /\ UNCHANGED flights
    /\ UNCHANGED <<busVars, sessVars, callVars, ctorVars, confirmed, posVars, copyVars,
                   evtVars, putLog, dispVars, wireVars>>

\* _check_position_update is called and sends its request.
PollIssued(s) ==
    /\ CheckPositionUpdate(s)
    /\ flights' = [flights EXCEPT ![s] = Append(@, [info |-> vpos[s], st |-> "out"])]
    /\ UNCHANGED vpos

\* The answer to request n arrives and _check_position_update goes on.
PollReturns(s, n, success) ==
    /\ n \in DOMAIN flights[s]
    /\ flights[s][n].st = "out"
    /\ GetPositionReturn(s, success, flights[s][n].info)
    /\ flights' = [flights EXCEPT ![s][n].st = IF success THEN "ok" ELSE "error"]
    /\ UNCHANGED vpos

OverlapNext ==
    \/ \E s \in Sessions, info \in PositionInfos : VenuePositionMoves(s, info)
    \/ \E s \in Sessions : PollIssued(s)
    \/ \E s \in Sessions, n \in 1..MaxPolls, success \in BOOLEAN : PollReturns(s, n, success)

(***************************************************************************)
(* What the strategy is handed, and what it can do to it.  An Asset object *)
(* has plain fields and an `assets` dict; copy.copy() makes a new object   *)
(* or a new dict whose members are the members of the original.            *)
(***************************************************************************)

\* copy.copy(x) of the Asset object n: a new Asset with the same field values
\* and the same `assets` dict.
Copy(n) == <<[update |-> objs[n].update, assets |-> objs[n].assets]>>

\* on_event_asset_update(asset): the session keeps the object it is given and
\* starts the strategy's callback with the same object.
OnEventAssetUpdate(s, amount) ==
    /\ venue[s] # "none"
    /\ assetSubs[s]
    /\ Len(objs) < MaxObjs
    /\ dicts' = Append(dicts, amount)
    /\ objs' = Append(objs, [update |-> TRUE, assets |-> Len(dicts) + 1])
    /\ _assets' = [_assets EXCEPT ![s] = Len(objs) + 1]
    /\ held' = [held EXCEPT ![s] = @ \cup {Len(objs) + 1}]
    /\ UNCHANGED mutations
    /\ UNCHANGED <<busVars, sessVars, callVars, ctorVars, confirmed, posVars, evtVars, putLog,
                   dispVars, wireVars, pollVars>>

\* The strategy reads the `assets` property: copy.copy(self._assets).
AssetsProperty(s) ==
    /\ _assets[s] # NoAsset
    /\ Len(objs) < MaxObjs
    /\ objs' = objs \o Copy(_assets[s])
    /\ held' = [held EXCEPT ![s] = @ \cup
                   {IF Len(objs') > Len(objs) THEN Len(objs') ELSE _assets[s]}]
    /\ UNCHANGED <<dicts, _assets, mutations>>
    /\ UNCHANGED <<busVars, sessVars, callVars, ctorVars, confirmed, posVars, evtVars, putLog,
                   dispVars, wireVars, pollVars>>

\* The strategy assigns to a field of an Asset it holds.
StrategySetsField(s, n) ==
    /\ n \in held[s]
    /\ mutations < MaxMutations
    /\ objs' = [objs EXCEPT ![n].update = ~@]
    /\ mutations' = mutations + 1
    /\ UNCHANGED <<dicts, _assets, held>>
    /\ UNCHANGED <<busVars, sessVars, callVars, ctorVars, confirmed, posVars, evtVars, putLog,
                   dispVars, wireVars, pollVars>>

\* The strategy assigns to an entry of the `assets` dict of an Asset it holds.
StrategySetsEntry(s, n) ==
    /\ n \in held[s]
    /\ mutations < MaxMutations
    /\ dicts' = [dicts EXCEPT ![objs[n].assets] = 1 - @]
    /\ mutations' = mutations + 1
    /\ UNCHANGED <<objs, _assets, held>>
    /\ UNCHANGED <<busVars, sessVars, callVars, ctorVars, confirmed, posVars, evtVars, putLog,
                   dispVars, wireVars, pollVars>>

\* The strategy reads the `orders` property, copy.copy(self._orders): a new
\* dict holding the session's own Order objects, and assigns to the status
\* of one of them.
OrdersPropertySetStatus(s, o) ==
    /\ orders[s][o] # "absent"
    /\ mutations < MaxMutations
    /\ orders' = [orders EXCEPT ![s][o] = "tampered"]
    /\ mutations' = mutations + 1
    /\ UNCHANGED <<objs, dicts, _assets, held>>
    /\ UNCHANGED <<sessConst, wsVars, venueVars, subOk, _ok, listenKey, logVars,
                   handlers, cc>>
    /\ UNCHANGED <<busVars, callVars, ctorVars, confirmed, posVars, evtVars, putLog,
                   dispVars, wireVars, pollVars>>

\* The strategy reads the `orders` property and deletes a key of the dict it
\* got: the dict is a copy, self._orders keeps the key.
OrdersPropertyDelete(s, o) ==
    /\ orders[s][o] # "absent"
    /\ mutations < MaxMutations
    /\ mutations' = mutations + 1
    /\ UNCHANGED <<objs, dicts, _assets, held>>
    /\ UNCHANGED <<busVars, sessVars, callVars, ctorVars, confirmed, posVars, evtVars, putLog,
                   dispVars, wireVars, pollVars>>

StrategyNext ==
    \/ \E s \in Sessions, amount \in {0, 1} : OnEventAssetUpdate(s, amount)
    \/ \E s \in Sessions : AssetsProperty(s)
    \/ \E s \in Sessions, n \in 1..MaxObjs : StrategySetsField(s, n)
    \/ \E s \in Sessions, n \in 1..MaxObjs : StrategySetsEntry(s, n)
    \/ \E s \in Sessions, o \in Orders : OrdersPropertySetStatus(s, o)
    \/ \E s \in Sessions, o \in Orders : OrdersPropertyDelete(s, o)

(***************************************************************************)
(*              Event.dumps, Event.loads and Event.callback                *)
(***************************************************************************)

\* Python values that json.dumps accepts, each with its type: None, bool, int,
\* str, list and dict with str keys.  The value of a str is its text; the
\* value of a dict is its items in insertion order.
PyNone == [t |-> "None", v |-> 0]

PyBool(b) == [t |-> "bool", v |-> b]

PyInt(n) == [t |-> "int", v |-> n]

PyStr(s) == [t |-> "str", v |-> s]

PyList(items) == [t |-> "list", v |-> items]

PyDict(items) == [t |-> "dict", v |-> items]

\* A text is a sequence of pieces.  A piece is a character JSON gives a meaning
\* to (quote, backslash, bracket, brace, comma, colon, space, sign, digit), a
\* literal (null, true, false), or a run of characters that are copied as
\* they are.
Quote == "\""

Backslash == "\\"

Str(piece) == PyStr(<<piece>>)

DigitChar(d) == <<"0", "1", "2", "3", "4", "5", "6", "7", "8", "9">>[d + 1]

IsDigit(c) == \E d \in 0..9 : DigitChar(d) = c

DigitValue(c) == CHOOSE d \in 0..9 : DigitChar(d) = c

RECURSIVE Digits(_)
Digits(n) == IF n < 10 THEN <<DigitChar(n)>> ELSE Digits(n \div 10) \o <<DigitChar(n % 10)>>

\* json.dumps of a str without its quotes, as it would be if no character were
\* escaped.
EscapeNothing(s) == s

\* json.dumps of a str, without its quotes: quote and backslash are escaped.
RECURSIVE Escape(_)
Escape(s) ==
    IF s = <<>> THEN <<>>
    ELSE (IF Head(s) \in {Quote, Backslash} THEN <<Backslash, Head(s)>> ELSE <<Head(s)>>)
         \o Escape(Tail(s))

\* json.dumps(d), with the default separators ", " and ": ".
RECURSIVE JsonDumps(_), JoinItems(_), JoinPairs(_)
JsonDumps(x) ==
    CASE x.t = "None" -> <<"null">>
      [] x.t = "bool" -> IF x.v THEN <<"true">> ELSE <<"false">>
      [] x.t = "int"  -> IF x.v < 0 THEN <<"-">> \o Digits(0 - x.v) ELSE Digits(x.v)
      [] x.t = "str"  -> <<Quote>> \o Escape(x.v) \o <<Quote>>
      [] x.t = "list" -> <<"[">> \o JoinItems(x.v) \o <<"]">>
      [] x.t = "dict" -> <<"{">> \o JoinPairs(x.v) \o <<"}">>

JoinItems(items) ==
    IF items = <<>> THEN <<>>
    ELSE JsonDumps(Head(items))
         \o (IF Tail(items) = <<>> THEN <<>> ELSE <<",", " ">> \o JoinItems(Tail(items)))

JoinPairs(items) ==
    IF items = <<>> THEN <<>>
    ELSE <<Quote>> \o Escape(Head(items).k) \o <<Quote, ":", " ">>
         \o JsonDumps(Head(items).x)
         \o (IF Tail(items) = <<>> THEN <<>> ELSE <<",", " ">> \o JoinPairs(Tail(items)))

\* The checksum zlib appends to the stream.
Adler(s) == DigitChar(Len(s) % 10)

\* zlib.compress(s.encode("utf8")): a header, the text as a stored block, and
\* the checksum of the text.  The text json.dumps returns is ASCII, so that
\* encoding it changes nothing.
Compress(s) == <<"x">> \o s \o <<Adler(s)>>

\* zlib.decompress(b): the text, or zlib.error (ok = FALSE) for a stream with a
\* wrong header, a cut body or a wrong checksum.
Decompress(b) ==
    IF Len(b) >= 2 /\ b[1] = "x" /\ Adler(SubSeq(b, 2, Len(b) - 1)) = b[Len(b)]
       THEN [ok |-> TRUE, text |-> SubSeq(b, 2, Len(b) - 1)]
       ELSE [ok |-> FALSE, text |-> <<>>]

\* json.loads raises ValueError.
Fail == [ok |-> FALSE, val |-> PyNone, next |-> 0]

RECURSIVE SkipWs(_, _)
SkipWs(s, i) == IF i <= Len(s) /\ s[i] = " " THEN SkipWs(s, i + 1) ELSE i

RECURSIVE ScanInt(_, _, _)
ScanInt(s, i, acc) ==
    IF i <= Len(s) /\ IsDigit(s[i])
       THEN ScanInt(s, i + 1, acc * 10 + DigitValue(s[i]))
       ELSE [val |-> acc, next |-> i]

\* A JSON number at s[i]: an optional sign, then 0 or digits that do not begin
\* with 0.
ParseNumber(s, i) ==
    LET neg == s[i] = "-"
        j   == IF neg THEN i + 1 ELSE i
    IN  IF j > Len(s) \/ ~IsDigit(s[j]) THEN Fail
        ELSE IF s[j] = "0" THEN [ok |-> TRUE, val |-> PyInt(0), next |-> j + 1]
        ELSE LET r == ScanInt(s, j, 0) IN
             [ok |-> TRUE, val |-> PyInt(IF neg THEN 0 - r.val ELSE r.val),
              next |-> r.next]

\* A JSON string whose opening quote is at s[i - 1]; acc is what was read of it.
RECURSIVE ScanStr(_, _, _)
ScanStr(s, i, acc) ==
    IF i > Len(s) THEN Fail
    ELSE IF s[i] = Quote THEN [ok |-> TRUE, val |-> PyStr(acc), next |-> i + 1]
    ELSE IF s[i] = Backslash
            THEN IF i + 1 <= Len(s) /\ s[i + 1] \in {Quote, Backslash}
                    THEN ScanStr(s, i + 2, Append(acc, s[i + 1]))
                    ELSE Fail
    ELSE ScanStr(s, i + 1, Append(acc, s[i]))

\* d[k] = x on the items of a dict: a key that is there keeps its place.
Put(items, k, x) ==
    IF \E j \in DOMAIN items : items[j].k = k
       THEN [j \in DOMAIN items |-> IF items[j].k = k THEN [k |-> k, x |-> x]
                                                       ELSE items[j]]
       ELSE Append(items, [k |-> k, x |-> x])

\* The JSON value that begins at or after s[i0].
RECURSIVE ParseValue(_, _), ArrayItems(_, _, _), ObjectItems(_, _, _)
ParseValue(s, i0) ==
    LET i == SkipWs(s, i0) IN
    IF i > Len(s) THEN Fail
    ELSE CASE s[i] = "null"  -> [ok |-> TRUE, val |-> PyNone, next |-> i + 1]
           [] s[i] = "true"  -> [ok |-> TRUE, val |-> PyBool(TRUE), next |-> i + 1]
           [] s[i] = "false" -> [ok |-> TRUE, val |-> PyBool(FALSE), next |-> i + 1]
           [] s[i] = Quote   -> ScanStr(s, i + 1, <<>>)
           [] s[i] = "-" \/ IsDigit(s[i]) -> ParseNumber(s, i)
           [] s[i] = "[" ->
                LET j == SkipWs(s, i + 1) IN
                IF j <= Len(s) /\ s[j] = "]"
                   THEN [ok |-> TRUE, val |-> PyList(<<>>), next |-> j + 1]
                   ELSE ArrayItems(s, j, <<>>)
           [] s[i] = "{" ->
                LET j == SkipWs(s, i + 1) IN
                IF j <= Len(s) /\ s[j] = "}"
                   THEN [ok |-> TRUE, val |-> PyDict(<<>>), next |-> j + 1]
                   ELSE ObjectItems(s, j, <<>>)
           [] OTHER -> Fail

ArrayItems(s, i, acc) ==
    LET r == ParseValue(s, i) IN
    IF ~r.ok THEN Fail
    ELSE LET j == SkipWs(s, r.next) IN
         IF j > Len(s) THEN Fail
         ELSE IF s[j] = "," THEN ArrayItems(s, j + 1, Append(acc, r.val))
         ELSE IF s[j] = "]"
                 THEN [ok |-> TRUE, val |-> PyList(Append(acc, r.val)), next |-> j + 1]
         ELSE Fail

ObjectItems(s, i0, acc) ==
    LET i == SkipWs(s, i0) IN
    IF i > Len(s) \/ s[i] # Quote THEN Fail
    ELSE LET key == ScanStr(s, i + 1, <<>>) IN
         IF ~key.ok THEN Fail
         ELSE LET c == SkipWs(s, key.next) IN
              IF c > Len(s) \/ s[c] # ":" THEN Fail
              ELSE LET r == ParseValue(s, c + 1) IN
                   IF ~r.ok THEN Fail
                   ELSE LET j == SkipWs(s, r.next) IN
                        IF j > Len(s) THEN Fail
                        ELSE IF s[j] = ","
                                THEN ObjectItems(s, j + 1, Put(acc, key.val.v, r.val))
                        ELSE IF s[j] = "}"
                                THEN [ok |-> TRUE,
                                      val |-> PyDict(Put(acc, key.val.v, r.val)),
                                      next |-> j + 1]
                        ELSE Fail

\* json.loads(text): one value, and nothing but white space after it.
JsonLoads(s) ==
    LET r == ParseValue(s, 1) IN
    IF r.ok /\ SkipWs(s, r.next) > Len(s) THEN [ok |-> TRUE, val |-> r.val]
                                         ELSE [ok |-> FALSE, val |-> PyNone]

\* d.get(k) of a dict
Get(d, key) ==
    IF \E j \in DOMAIN d.v : d.v[j].k = key
       THEN d.v[CHOOSE j \in DOMAIN d.v : d.v[j].k = key].x
       ELSE PyNone

(***************************************************************************)
(* Event.dumps                                                             *)
(***************************************************************************)
Dumps(e) ==
    Compress(JsonDumps(PyDict(<<[k |-> <<"n">>, x |-> e.name],
                                [k |-> <<"d">>, x |-> e.data]>>)))

(***************************************************************************)
(* Event.loads: decompress, json.loads, then d.get("n") and d.get("d"),    *)
(* which raises when d is not a dict.  The fields are assigned when        *)
(* nothing was raised before.                                              *)
(***************************************************************************)
Loads(b) ==
    LET z == Decompress(b)
        d == JsonLoads(z.text)
    IN  IF z.ok /\ d.ok /\ d.val.t = "dict"
           THEN [ok |-> TRUE, name |-> Get(d.val, <<"n">>), data |-> Get(d.val, <<"d">>)]
           ELSE [ok |-> FALSE, name |-> PyNone, data |-> PyNone]

\* The Event classes, and the keys of the `data' each constructor builds.
Classes ==
    {"Event", "EventConfig", "EventHeartbeat", "EventAsset", "EventOrder", "EventKline",
     "EventOrderbook", "EventTrade"}

DataKeys(cls) ==
    CASE cls = "EventConfig"    -> <<"server_id", "params">>
      [] cls = "EventHeartbeat" -> <<"server_id", "count">>
      [] cls = "EventAsset"     -> <<"platform", "account", "assets", "timestamp", "update">>
      [] cls = "EventOrder"     -> <<"platform", "account", "strategy", "order_no", "symbol",
                                     "action", "price", "quantity", "status", "order_type",
                                     "timestamp">>
      [] cls = "EventKline"     -> <<"platform", "symbol", "open", "high", "low", "close",
                                     "volume", "timestamp", "kline_type">>
      [] cls = "EventOrderbook" -> <<"platform", "symbol", "asks", "bids", "timestamp">>
      [] cls = "EventTrade"     -> <<"platform", "symbol", "action", "price", "quantity",
                                     "timestamp">>
      [] OTHER -> <<>>

EventName(cls) ==
    CASE cls = "EventConfig"    -> "EVENT_CONFIG"
      [] cls = "EventHeartbeat" -> "EVENT_HEARTBEAT"
      [] cls = "EventAsset"     -> "EVENT_ASSET"
      [] cls = "EventOrder"     -> "EVENT_ORDER"
      [] cls = "EventKline"     -> "EVENT_KLINE"
      [] cls = "EventOrderbook" -> "EVENT_ORDERBOOK"
      [] cls = "EventTrade"     -> "EVENT_TRADE"

\* The default of a parameter of the constructors.
Default(key) == IF key = "update" THEN PyBool(FALSE) ELSE PyNone

\* cls(...) with every argument that has no fixed value set to x: the 1-minute
\* kline, and an asset event that is no update.
NewEvent(cls, x) ==
    [cls  |-> cls,
     name |-> Str(EventName(cls)),
     data |-> PyDict([j \in DOMAIN DataKeys(cls) |->
                 [k |-> <<DataKeys(cls)[j]>>,
                  x |-> CASE DataKeys(cls)[j] = "kline_type" -> Str("kline")
                          [] DataKeys(cls)[j] = "update" -> PyBool(FALSE)
                          [] OTHER -> x]])]

\* Event(name=n, data=d)
PlainEvent(n, d) == [cls |-> "Event", name |-> n, data |-> d]

(***************************************************************************)
(* parse() of each class.  Event.parse raises; EventConfig, EventHeartbeat *)
(* and EventOrder have `pass' for a body and return None; the others call  *)
(* the domain class with **self.data, which raises TypeError when the data *)
(* is no dict or has a key that is no parameter of the class.              *)
(***************************************************************************)
Parse(cls, data) ==
    CASE cls = "Event" -> [ok |-> FALSE, obj |-> PyNone]
      [] cls \in {"EventConfig", "EventHeartbeat", "EventOrder"} ->
            [ok |-> TRUE, obj |-> PyNone]
      [] OTHER ->
            LET keys == DataKeys(cls) IN
            IF data.t = "dict"
               /\ \A j \in DOMAIN data.v :
                     \E p \in DOMAIN keys : data.v[j].k = <<keys[p]>>
               THEN [ok |-> TRUE,
                     obj |-> [t |-> cls,
                              v |-> [p \in DOMAIN keys |->
                                       [k |-> <<keys[p]>>,
                                        x |-> IF \E j \in DOMAIN data.v :
                                                    data.v[j].k = <<keys[p]>>
                                                 THEN Get(data, <<keys[p]>>)
                                                 ELSE Default(keys[p])]]]]
               ELSE [ok |-> FALSE, obj |-> PyNone]

\* No event is on its way.
NoEvent == [cls |-> "none", name |-> PyNone, data |-> PyNone]

NoEvents ==
    /\ pub = NoEvent
    /\ body = <<>>
    /\ intact = TRUE
    /\ sub = NoEvent
    /\ got = <<>>

\* The values of the events that are encoded: names, and data of every JSON
\* type, with texts that need escaping, numbers of several digits, nesting.
Texts == {<<>>, <<"a">>, <<Quote>>, <<Backslash>>, <<"a", "a">>, <<Backslash, Quote>>,
          <<"null">>, <<"[", ",">>}

Scalars ==
    {PyNone, PyBool(TRUE), PyBool(FALSE)}
    \cup {PyInt(n) : n \in {0, 7, 0 - 1, 10, 0 - 120}}
    \cup {PyStr(s) : s \in Texts}

Items == {PyNone, PyBool(FALSE), PyInt(0 - 1), PyStr(<<Quote>>), PyStr(<<"a", "a">>),
          PyList(<<>>), PyList(<<PyInt(7)>>), PyDict(<<>>),
          PyDict(<<[k |-> <<"a">>, x |-> PyNone]>>)}

ItemKeys == {<<"a">>, <<Quote>>, <<"a", Backslash>>}

JsonValues ==
    Scalars
    \cup {PyList(q) : q \in UNION {[1..n -> Items] : n \in 0..MaxItems}}
    \cup {PyDict(q) : q \in {q \in UNION {[1..n -> [k : ItemKeys, x : Items]] :
                                             n \in 0..MaxItems} :
                               \A a \in DOMAIN q, b \in DOMAIN q :
                                   q[a].k = q[b].k => a = b}}

Names == {PyNone} \cup {PyStr(s) : s \in {<<"a">>, <<Quote, "a">>, <<"EVENT_ORDER">>}}

FieldValues == {PyNone, Str("a"), PyInt(10)}

\* An event of a publisher, and the Event object of the same class its
\* subscriber has made to subscribe with.
InitEvents ==
    /\ \/ /\ pub \in {PlainEvent(n, d) : n \in Names, d \in JsonValues}
          /\ sub = PlainEvent(PyNone, PyNone)
       \/ \E cls \in Classes \ {"Event"} :
             /\ pub \in {NewEvent(cls, x) : x \in FieldValues}
             /\ sub = NewEvent(cls, PyNone)
    /\ body = <<>>
    /\ intact = TRUE
    /\ got = <<>>

\* Payloads no dumps() has produced: a stream that is cut, a text that is cut,
\* a JSON value that is no object, an object without "d".
Malformed ==
    LET b == Dumps(pub)
        s == JsonDumps(PyDict(<<[k |-> <<"n">>, x |-> pub.name]>>))
    IN  {SubSeq(b, 1, Len(b) - 1),
         Compress(SubSeq(s, 1, Len(s) - 1)),
         Compress(JsonDumps(PyList(<<pub.name>>))),
         Compress(s)}

(***************************************************************************)
(* EventCenter.publish of the publisher: event.dumps() is handed to the    *)
(* channel, and the broker puts it into the subscriber's queue.            *)
(***************************************************************************)
EventPublished ==
    /\ body = <<>>
    /\ Len(got) < MaxBodies
    /\ body' = Dumps(pub)
    /\ intact' = TRUE
    /\ UNCHANGED <<pub, sub, got>>
    /\ UNCHANGED <<busVars, sessVars, callVars, ctorVars, confirmed, posVars, copyVars, putLog,
                   dispVars, wireVars, pollVars>>

\* Another payload gets into the subscriber's queue.
MalformedArrives(b) ==
    /\ body = <<>>
    /\ Len(got) < MaxBodies
    /\ b \in Malformed
    /\ body' = b
    /\ intact' = FALSE
    /\ UNCHANGED <<pub, sub, got>>
    /\ UNCHANGED <<busVars, sessVars, callVars, ctorVars, confirmed, posVars, copyVars, putLog,
                   dispVars, wireVars, pollVars>>

(***************************************************************************)
(* Event.callback, run as a task: self.loads(body), o = self.parse(),      *)
(* await self._callback(o).  What loads or parse raises ends the task.     *)
(***************************************************************************)
EventCallback ==
    /\ body # <<>>
    /\ LET r == Loads(body)
           e == IF r.ok THEN [sub EXCEPT !.name = r.name, !.data = r.data] ELSE sub
           o == Parse(sub.cls, e.data)
       IN  /\ sub' = e
           /\ got' = Append(got, [intact |-> intact,
                                  loaded |-> r.ok,
                                  called |-> r.ok /\ o.ok,
                                  arg    |-> IF r.ok /\ o.ok THEN o.obj ELSE PyNone,
                                  had    |-> sub])
    /\ body' = <<>>
    /\ UNCHANGED <<pub, intact>>
    /\ UNCHANGED <<busVars, sessVars, callVars, ctorVars, confirmed, posVars, copyVars, putLog,
                   dispVars, wireVars, pollVars>>

EventNext ==
    \/ EventPublished
    \/ \E b \in Malformed : MalformedArrives(b)
    \/ EventCallback

(***************************************************************************)
(*                     How client callbacks are invoked                    *)
(*                                                                         *)
(* A call site is a place of the library that invokes a callback of client *)
(* code: the handler of a bus subscription, or one of the four callbacks   *)
(* of a session.  SingleTask.run(cb, ...) makes a task that the loop runs  *)
(* later; `await cb(...)` and a callback handed to basic_consume run in    *)
(* the code path that triggers them.                                       *)
(***************************************************************************)

NoCallbacks == tasks = <<>> /\ ran = <<>>

\* The callbacks a session of each venue invokes: only the two future
\* sessions take a position_update_callback.
SessionCallbacks(v) ==
    IF v \in {"binance_future", "okex_future"}
    THEN {"asset", "order", "position", "init"}
    ELSE {"asset", "order", "init"}

CallSites ==
    {[src |-> "event", kind |-> k] : k \in {"exact", "multi"}}
        \cup UNION {{[src |-> v, kind |-> k] : k \in SessionCallbacks(v)} : v \in Venues}

\* How the code of a call site invokes the callback.
\*   event, exact: _on_consume_event_msg does SingleTask.run(func, ...) for
\*                 each handler of the key;
\*   event, multi: _initialize hands the callback itself to basic_consume,
\*                 so the channel's delivery path awaits it;
\*   binance_future, position: _check_position_update awaits the callback;
\*   every other session callback: SingleTask.run(callback, ...).
Dispatch(site) ==
    IF site.src = "event"
    THEN IF site.kind = "multi" THEN "inline" ELSE "task"
    ELSE IF site.src = "binance_future" /\ site.kind = "position" THEN "inline"
    ELSE "task"

\* The code path of a call site reaches its callback.
CallbackTriggered(site) ==
    /\ Len(tasks) + Len(ran) < MaxCallbacks
    /\ IF Dispatch(site) = "task"
       THEN /\ tasks' = Append(tasks, site)
            /\ UNCHANGED ran
       ELSE /\ ran' = Append(ran, [site |-> site, by |-> "inline"])
            /\ UNCHANGED tasks
    /\ UNCHANGED <<busVars, sessVars, callVars, ctorVars, confirmed, posVars, copyVars,
                   evtVars, putLog, wireVars, pollVars>>

\* The loop runs the oldest task SingleTask.run made.
TaskRuns ==
    /\ tasks # <<>>
    /\ ran' = Append(ran, [site |-> Head(tasks), by |-> "task"])
    /\ tasks' = Tail(tasks)
    /\ UNCHANGED <<busVars, sessVars, callVars, ctorVars, confirmed, posVars, copyVars,
                   evtVars, putLog, wireVars, pollVars>>

DispatchNext ==
    \/ \E site \in CallSites : CallbackTriggered(site)
    \/ TaskRuns

(***************************************************************************)
(*        Exchanges, routing keys and queues of the Event subclasses       *)
(*                                                                         *)
(* A name made by "{a}.{b}".format(...) is the sequence of its parts.      *)
(***************************************************************************)

NoWire == declared = {} /\ brokerOps = {}

\* config.server_id
ServerId == "srv"

\* exchanges = [...] of connect()
DefaultExchanges ==
    {"Orderbook", "Trade", "Kline", "EVENT_CONFIG", "EVENT_HEARTBEAT", "EVENT_ASSET",
     "EVENT_ORDER"}

\* const.MARKET_TYPE_*: the market types Market accepts.
MarketTypes ==
    {"orderbook", "trade", "kline", "kline_5m", "kline_15m", "kline_1h", "kline_4h",
     "kline_1d"}

\* EventKline.__init__ calls super().__init__ for these kline types only; for
\* another it logs an error and returns, and the object has no _exchange.
BuiltKlineTypes == {"kline", "kline_5m", "kline_15m"}

\* exchange = "..." of each constructor
Exchange(cls, kline_type) ==
    CASE cls = "EventConfig"    -> "Config"
      [] cls = "EventHeartbeat" -> "Heartbeat"
      [] cls = "EventAsset"     -> "Asset"
      [] cls = "EventOrder"     -> "Order"
      [] cls = "EventKline"     -> (CASE kline_type = "kline"     -> "Kline"
                                      [] kline_type = "kline_5m"  -> "Kline.5min"
                                      [] kline_type = "kline_15m" -> "Kline.15min")
      [] cls = "EventOrderbook" -> "Orderbook"
      [] cls = "EventTrade"     -> "Trade"

\* routing_key = "...".format(...) of each constructor; EventHeartbeat passes none.
RoutingKey(cls, a) ==
    CASE cls = "EventConfig"    -> <<ServerId>>
      [] cls = "EventHeartbeat" -> <<>>
      [] cls = "EventAsset"     -> <<a.platform, a.account>>
      [] cls = "EventOrder"     -> <<a.platform, a.account, a.symbol>>
      [] OTHER                  -> <<a.platform, a.symbol>>

\* queue = "...".format(...) of each constructor
Queue(cls, a) ==
    IF cls \in {"EventConfig", "EventHeartbeat"}
    THEN <<ServerId, Exchange(cls, a.kline_type)>>
    ELSE <<ServerId, Exchange(cls, a.kline_type)>> \o RoutingKey(cls, a)

\* The arguments of the constructors.
Platforms == {"binance", "#"}

Symbols == {"BTC", "#"}

EventArgs ==
    [platform : Platforms, account : {"acct"}, symbol : Symbols,
     kline_type : BuiltKlineTypes]

\* The class Market subscribes for a market type.
MarketClass(market_type) ==
    CASE market_type = "orderbook" -> "EventOrderbook"
      [] market_type = "trade"     -> "EventTrade"
      [] OTHER                     -> "EventKline"

\* connect(): exchange_declare of each default exchange.
ExchangesDeclared ==
    /\ declared' = declared \cup DefaultExchanges
    /\ UNCHANGED brokerOps
    /\ UNCHANGED notWire

\* EventCenter._initialize(event, callback, multi) on a connected channel:
\* queue_declare, queue_bind and basic_consume.
Initialize(cls, a, multi) ==
    LET named == Queue(cls, a) # <<>>
        queue_name == IF named THEN Queue(cls, a) ELSE <<"amq.gen">>
        Op(what) == [op |-> what, cls |-> cls, multi |-> multi,
                     exchange |-> Exchange(cls, a.kline_type),
                     routing_key |-> RoutingKey(cls, a),
                     queue |-> queue_name, exclusive |-> ~named]
    IN  brokerOps' = brokerOps \cup {Op("bind"), Op("consume")}

\* Market(market_type, platform, symbol, callback), and the bind pass that
\* reaches its subscription.  An EventKline of a kline type the constructor
\* does not know has no exchange and no queue: subscribe() raises on it.
MarketSubscribes(market_type, platform, symbol) ==
    /\ declared # {}
    /\ Cardinality(brokerOps) < MaxWire
    /\ LET multi == platform = "#" \/ symbol = "#"
           cls == MarketClass(market_type)
           a == [platform |-> platform, account |-> "acct", symbol |-> symbol,
                 kline_type |-> market_type]
       IN  IF cls = "EventKline" /\ market_type \notin BuiltKlineTypes
              THEN UNCHANGED brokerOps
              ELSE Initialize(cls, a, multi)
    /\ UNCHANGED declared
    /\ UNCHANGED notWire

\* AssetSubscribe(platform, account, callback), and the bind pass.
AssetSubscribes(platform) ==
    /\ declared # {}
    /\ Cardinality(brokerOps) < MaxWire
    /\ Initialize("EventAsset", [platform |-> platform, account |-> "acct",
                                 symbol |-> "BTC", kline_type |-> "kline"], FALSE)
    /\ UNCHANGED declared
    /\ UNCHANGED notWire

\* cls(...).subscribe(callback, multi) of the classes that have no wrapper:
\* Config does EventConfig(self.server_id).subscribe(self._on_event_config).
EventSubscribes(cls, a, multi) ==
    /\ cls \in {"EventConfig", "EventHeartbeat", "EventOrder"}
    /\ cls = "EventConfig" => ~multi
    /\ declared # {}
    /\ Cardinality(brokerOps) < MaxWire
    /\ Initialize(cls, a, multi)
    /\ UNCHANGED declared
    /\ UNCHANGED notWire

\* cls(...).publish() on a live connection: basic_publish(payload,
\* exchange_name=event.exchange, routing_key=event.routing_key).
EventPublishes(cls, a) ==
    /\ cls \in Classes \ {"Event"}
    /\ declared # {}
    /\ Cardinality(brokerOps) < MaxWire
    /\ brokerOps' = brokerOps \cup {[op |-> "publish", cls |-> cls, multi |-> FALSE,
                          exchange |-> Exchange(cls, a.kline_type),
                          routing_key |-> RoutingKey(cls, a),
                          queue |-> <<>>, exclusive |-> FALSE]}
    /\ UNCHANGED declared
    /\ UNCHANGED notWire

WireNext ==
    \/ ExchangesDeclared
    \/ \E m \in MarketTypes, p \in Platforms, y \in Symbols : MarketSubscribes(m, p, y)
    \/ \E p \in Platforms : AssetSubscribes(p)
    \/ \E cls \in Classes, a \in EventArgs, m \in BOOLEAN : EventSubscribes(cls, a, m)
    \/ \E cls \in Classes, a \in EventArgs : EventPublishes(cls, a)

(***************************************************************************)
(*             The listen-key renewal of the Binance sessions              *)
(***************************************************************************)

NoRenewals == putLog = [s \in Sessions |-> <<>>]

(***************************************************************************)
(* _reset_listen_key, called by LoopRunTask every 30 minutes (20 for the   *)
(* future session): it returns when no listen key is set, and sends the    *)
(* PUT request otherwise.                                                  *)
(***************************************************************************)
ResetListenKey(s) ==
    /\ IsBinance(venue[s])
    /\ Len(putLog[s]) < MaxRenewals
    /\ putLog' = IF listenKey[s] THEN [putLog EXCEPT ![s] = Append(@, "pending")]
                                 ELSE putLog
    /\ UNCHANGED <<busVars, sessVars, callVars, ctorVars, confirmed, posVars, copyVars,
                   evtVars,
                   dispVars, wireVars, pollVars>>

\* put_listen_key returning as it would be if a failure closed the stream and
\* dropped the listen key.
PutListenKeyReturnOrReconnect(s, i, success) ==
    /\ i \in DOMAIN putLog[s]
    /\ putLog[s][i] = "pending"
    /\ putLog' = [putLog EXCEPT ![s][i] = IF success THEN "ok" ELSE "failed"]
    /\ listenKey' = IF success THEN listenKey ELSE [listenKey EXCEPT ![s] = FALSE]
    /\ ws' = IF success \/ ws[s] # "open" THEN ws ELSE [ws EXCEPT ![s] = "lost"]
    /\ UNCHANGED <<sessConst, wsConns, inbox, handlers, cc, venueVars, orders, subOk,
                   _ok, logVars>>
    /\ UNCHANGED <<busVars, callVars, ctorVars, confirmed, posVars, copyVars, evtVars,
                   dispVars, wireVars, pollVars>>

(***************************************************************************)
(* `await self._rest_api.put_listen_key(self._listen_key)' returns: the    *)
(* (success, error) pair is dropped and the coroutine ends.                *)
(***************************************************************************)
PutListenKeyReturn(s, i, success) ==
    /\ i \in DOMAIN putLog[s]
    /\ putLog[s][i] = "pending"
    /\ putLog' = [putLog EXCEPT ![s][i] = IF success THEN "ok" ELSE "failed"]
    /\ UNCHANGED <<busVars, sessVars, callVars, ctorVars, confirmed, posVars, copyVars,
                   evtVars,
                   dispVars, wireVars, pollVars>>

RenewalNext ==
    \/ \E s \in Sessions : ResetListenKey(s)
    \/ \E s \in Sessions, i \in 1..MaxRenewals, success \in BOOLEAN :
          PutListenKeyReturn(s, i, success)

(***************************************************************************)
(*        create_order() and revoke_order() of the Trade sessions          *)
(***************************************************************************)

\* The order numbers a strategy hands to revoke_order(*order_nos).
OrderNos == UNION {[1..n -> Orders] : n \in 0..MaxIds}

\* What an open-orders request can list: orders of the account, each once.
Snapshots ==
    {q \in UNION {[1..n -> Orders] : n \in 0..MaxOrders} :
        \A a \in DOMAIN q, b \in DOMAIN q : q[a] = q[b] => a = b}

\* What the venue answers to one REST request: it carries the request out, or
\* the request fails (transport, HTTP status), or, on the OKEx order endpoints,
\* it answers with a body whose "result" is false.
Wire(v, req) ==
    IF IsOKEx(v) /\ req # "get_open_orders" THEN {"ok", "refused", "error"}
    ELSE {"ok", "error"}

\* The `error` the REST wrapper of the venue hands back for an answer: only
\* OKExFutureRestAPI.revoke_order() turns a false "result" into an error.
RestError(v, req, wire) ==
    \/ wire = "error"
    \/ wire = "refused" /\ v = "okex_future" /\ req = "revoke_order"

\* `order_id, client_order_id = order_no.split("_")` succeeds; the OKEx
\* sessions pass the order number on as it is.
Splits(v, o) == IsBinance(v) => twoParts[o]

NoCall ==
    [op |-> "none", s |-> 1, order_nos |-> <<>>, pc |-> "idle", i |-> 1,
     snap |-> <<>>, success |-> <<>>, error |-> <<>>,
     first |-> "pending", second |-> "pending"]

NoCalls ==
    /\ call = NoCall
    /\ requests = <<>>
    /\ responses = <<>>
    /\ cancelled = {}
    /\ twoParts = [o \in Orders |-> TRUE]

Return(c, a, b) == [c EXCEPT !.pc = "done", !.first = a, !.second = b]

\* create_order(): one REST request.
CreateOrder(s, o) ==
    /\ venue[s] # "none"
    /\ call.pc = "idle"
    /\ call' = [call EXCEPT !.op = "create_order", !.s = s, !.pc = "create"]
    /\ requests' = Append(requests, <<"create_order", o>>)
    /\ UNCHANGED <<responses, cancelled, twoParts, notCall>>

\* The answer to it: (order_no, None) or (None, error).
CreateOrderReturn(wire) ==
    LET v == venue[call.s] IN
    /\ call.pc = "create"
    /\ wire \in Wire(v, "create_order")
    /\ responses' = Append(responses, wire)
    /\ call' = IF RestError(v, "create_order", wire)
                  THEN Return(call, "None", "error")
               ELSE IF v = "okex_margin" /\ wire = "refused"
                  THEN Return(call, "None", "error")
               ELSE IF wire = "refused"
                  THEN Return(call, "body", "None")
               ELSE Return(call, "order_no", "None")
    /\ UNCHANGED <<requests, cancelled, twoParts, notCall>>

\* The top of `for order_no in order_nos:` at index c.i.
BatchStep(c) ==
    IF c.i > Len(c.order_nos) THEN Return(c, "list", "list")
    ELSE IF ~Splits(venue[c.s], c.order_nos[c.i]) THEN [c EXCEPT !.pc = "raised"]
    ELSE [c EXCEPT !.pc = "batch"]

\* The top of `for order_info in order_infos:` at index c.i.
AllStep(c) ==
    IF c.i > Len(c.snap) THEN Return(c, "True", "None") ELSE [c EXCEPT !.pc = "all"]

\* The REST request a call that has just moved to pc waits for, if any.
Requested(c) ==
    IF c.pc = "snapshot" THEN <<<<"get_open_orders">>>>
    ELSE IF c.pc = "all" THEN <<<<"revoke_order", c.snap[c.i]>>>>
    ELSE IF c.pc \in {"one", "batch"} THEN <<<<"revoke_order", c.order_nos[c.i]>>>>
    ELSE <<>>

\* revoke_order(*order_nos) up to its first await.
RevokeOrder(s, order_nos) ==
    /\ venue[s] # "none"
    /\ call.pc = "idle"
    /\ LET c == [call EXCEPT !.op = "revoke_order", !.s = s, !.order_nos = order_nos]
           d == IF Len(order_nos) = 0 THEN [c EXCEPT !.pc = "snapshot"]
                ELSE IF Len(order_nos) = 1
                   THEN IF Splits(venue[s], order_nos[1]) THEN [c EXCEPT !.pc = "one"]
                        ELSE [c EXCEPT !.pc = "raised"]
                ELSE BatchStep(c)
       IN /\ call' = d
          /\ requests' = requests \o Requested(d)
    /\ UNCHANGED <<responses, cancelled, twoParts, notCall>>

\* The open-orders request of revoke_order() returns.
OpenOrdersReturn(wire, snap) ==
    LET v == venue[call.s] IN
    /\ call.pc = "snapshot"
    /\ wire \in Wire(v, "get_open_orders")
    /\ snap \in Snapshots
    /\ wire = "error" => snap = <<>>
    /\ responses' = Append(responses, wire)
    /\ LET d == IF RestError(v, "get_open_orders", wire)
                   THEN Return(call, "False", "error")
                ELSE AllStep([call EXCEPT !.snap = snap, !.i = 1])
       IN /\ call' = d
          /\ requests' = requests \o Requested(d)
    /\ UNCHANGED <<cancelled, twoParts, notCall>>

\* A revoke_order() that, unlike the code, takes the order it cancelled out of
\* self._orders itself instead of leaving that to the stream.
RevokeReturnForgetsOrder(wire) ==
    LET o == IF call.pc = "all" THEN call.snap[call.i] ELSE call.order_nos[call.i]
    IN
    /\ call.pc \in {"all", "one", "batch"}
    /\ wire \in Wire(venue[call.s], "revoke_order")
    /\ responses' = Append(responses, wire)
    /\ cancelled' = IF wire = "ok" THEN cancelled \cup {o} ELSE cancelled
    /\ call' = Return(call, "order_no", "None")
    /\ orders' = [orders EXCEPT ![call.s][o] = "absent"]
    /\ UNCHANGED <<requests, twoParts, busVars, sessConst, wsVars, venueVars, subOk, _ok,
                   listenKey, logVars, handlers, cc, ctorVars, confirmed, posVars,
                   copyVars, evtVars, putLog, dispVars, wireVars, pollVars>>

\* One cancel request of revoke_order() returns.
RevokeReturn(wire) ==
    LET v == venue[call.s]
        e == RestError(v, "revoke_order", wire)
        o == IF call.pc = "all" THEN call.snap[call.i] ELSE call.order_nos[call.i]
    IN
    /\ call.pc \in {"all", "one", "batch"}
    /\ wire \in Wire(v, "revoke_order")
    /\ responses' = Append(responses, wire)
    /\ cancelled' = IF wire = "ok" THEN cancelled \cup {o} ELSE cancelled
    /\ LET d == IF call.pc = "all"
                   THEN IF e THEN Return(call, "False", "error")
                        ELSE AllStep([call EXCEPT !.i = @ + 1])
                ELSE IF call.pc = "one"
                   THEN Return(call, "order_no", IF e THEN "error" ELSE "None")
                ELSE BatchStep([call EXCEPT
                                   !.i = @ + 1,
                                   !.error = IF e THEN Append(@, o) ELSE @,
                                   !.success = IF e THEN @ ELSE Append(@, o)])
       IN /\ call' = d
          /\ requests' = requests \o Requested(d)
    /\ UNCHANGED <<twoParts, notCall>>

CallNext ==
    \/ \E s \in Sessions, o \in Orders : CreateOrder(s, o)
    \/ \E wire \in {"ok", "refused", "error"} : CreateOrderReturn(wire)
    \/ \E s \in Sessions, order_nos \in OrderNos : RevokeOrder(s, order_nos)
    \/ \E wire \in {"ok", "error"}, snap \in Snapshots : OpenOrdersReturn(wire, snap)
    \/ \E wire \in {"ok", "refused", "error"} : RevokeReturn(wire)

\* get_open_order_nos(): one open-orders request.
GetOpenOrderNos(s) ==
    /\ venue[s] # "none"
    /\ call.pc = "idle"
    /\ call' = [call EXCEPT !.op = "get_open_order_nos", !.s = s, !.pc = "open_nos"]
    /\ requests' = Append(requests, <<"get_open_orders">>)
    /\ UNCHANGED <<responses, cancelled, twoParts, notCall>>

\* The answer to it: (None, error), or the order numbers built from the answer.
GetOpenOrderNosReturn(wire, snap) ==
    LET v == venue[call.s] IN
    /\ call.pc = "open_nos"
    /\ wire \in Wire(v, "get_open_orders")
    /\ snap \in Snapshots
    /\ wire = "error" => snap = <<>>
    /\ responses' = Append(responses, wire)
    /\ call' = IF RestError(v, "get_open_orders", wire)
                  THEN Return(call, "None", "error")
               ELSE Return([call EXCEPT !.snap = snap], "list", "None")
    /\ UNCHANGED <<requests, cancelled, twoParts, notCall>>

\* The orders of the account whose Binance order number splits at "_" into an
\* order id and a client order id.
InitCalls ==
    /\ InitBus
    /\ InitSession
    /\ Constructed
    /\ NoPolls /\ NoRenewals /\ NoCallbacks /\ NoWire /\ NoFlights /\ NoEvents
    /\ call = NoCall
    /\ requests = <<>>
    /\ responses = <<>>
    /\ cancelled = {}
    /\ twoParts \in [Orders -> BOOLEAN]

SpecCalls == InitCalls /\ [][CallNext]_vars

InitOneSession == InitBus /\ InitSession /\ NoCalls /\ Constructed /\ NoPolls /\ NoRenewals /\ NoCallbacks /\ NoWire /\ NoFlights /\ NoEvents

SpecSession == InitOneSession /\ [][SessionNext]_vars

(***************************************************************************)
(*                         Specifications                                  *)
(***************************************************************************)

\* The bus alone.
InitBusOnly == InitBus /\ NoSessions /\ NoCalls /\ Constructed /\ NoPolls /\ NoRenewals /\ NoCallbacks /\ NoWire /\ NoFlights /\ NoEvents

\* The bus with subscribers only.
SpecBusBind == InitBusOnly /\ [][BusLifecycle \/ BusSubscribe]_vars

\* The bus with subscribers and inbound messages.
SpecBusDeliver == InitBusOnly /\ [][BusLifecycle \/ BusSubscribe \/ BusDeliver]_vars

\* The bus with publishers: publish() reads self._connected and self._channel
\* only, so the registry stays empty here and every bind pass ends at once.
BusConnect ==
    \/ CheckConnection
    \/ \E t \in 1..MaxConnects, ok \in BOOLEAN : ConnectDial(t, ok)
    \/ \E t \in 1..MaxConnects : ConnectInstall(t)
    \/ \E t \in 1..MaxConnects : ConnectDeclare(t)
    \/ BindTimerFires
    \/ \E p \in 1..(MaxConnects + 1) : PassBind(p)
    \/ \E c \in 1..MaxChannels : ChannelLost(c)

SpecBusPublish == InitBusOnly /\ [][BusConnect \/ Publish]_vars

SpecBus == InitBusOnly /\ [][BusNext]_vars

\* Two Trade objects in one process, of any two venues.
InitSessionPair ==
    /\ InitBus
    /\ \E v1 \in Venues, v2 \in Venues :
          SessionVarsInit([s \in Sessions |-> IF s = 1 THEN v1
                                              ELSE IF s = 2 THEN v2 ELSE "none"],
                          AllDigits)
    /\ NoCalls
    /\ Constructed
    /\ NoPolls /\ NoRenewals /\ NoCallbacks /\ NoWire /\ NoFlights /\ NoEvents

\* The start-up of the sessions: stream, login, reconciliation, subscription.
SessionStartup ==
    \/ \E s \in Sessions, success \in BOOLEAN : InitWebsocket(s, success)
    \/ \E s \in Sessions : WsConnected(s)
    \/ \E s \in Sessions, success \in BOOLEAN : VenueReply(s, success)
    \/ \E s \in Sessions : Receive(s)
    \/ \E j \in DOMAIN handlers : ProcessLogin(j)
    \/ \E j \in DOMAIN handlers, success \in BOOLEAN : RestOrdersReturn(j, success)
    \/ \E j \in DOMAIN handlers, success \in BOOLEAN : RestPositionReturn(j, success)
    \/ \E j \in DOMAIN handlers : ProcessSubscribe(j)
    \/ \E s \in Sessions, success \in BOOLEAN :
          \E i \in DOMAIN cc[s] : ConnectedCallbackReturn(s, i, success)

SpecSessionPair == InitSessionPair /\ [][SessionStartup]_vars

\* One BinanceFutureTrade session: its start-up and its position check.
InitFutureSession ==
    /\ InitBus
    /\ \E d \in ClientIds("binance_future") :
          SessionVarsInit([s \in Sessions |-> IF s = 1 THEN "binance_future" ELSE "none"],
                          [s \in Sessions |-> IF s = 1 THEN d
                                              ELSE [o \in Orders |-> TRUE]])
    /\ NoCalls
    /\ Constructed
    /\ NoPolls /\ NoRenewals /\ NoCallbacks /\ NoWire /\ NoFlights /\ NoEvents

\* The start-up of a Binance session: listen key, stream, open orders.
BinanceStartup ==
    \/ \E s \in Sessions, success \in BOOLEAN : InitWebsocket(s, success)
    \/ \E s \in Sessions : WsConnected(s)
    \/ \E s \in Sessions : WsLost(s)
    \/ \E s \in Sessions, success \in BOOLEAN :
          \E i \in DOMAIN cc[s] : ConnectedCallbackReturn(s, i, success)

SpecPosition == InitFutureSession /\ [][BinanceStartup \/ PositionNext]_vars

\* The same session with the venue's position and each request told apart.
SpecOverlap ==
    InitFutureSession
        /\ [][\/ \E s \in Sessions, success \in BOOLEAN : InitWebsocket(s, success)
              \/ \E s \in Sessions : WsConnected(s)
              \/ \E s \in Sessions, success \in BOOLEAN :
                    \E i \in DOMAIN cc[s] : ConnectedCallbackReturn(s, i, success)
              \/ OverlapNext]_vars

\* One session of any venue that finds at its start-up the orders placed
\* before it, and a strategy that reads its properties and assigns to what it
\* was handed.
PlacedBefore ==
    \E s \in Sessions, o \in Orders :
        \E c \in VenueCodes(venue[s]) : wsConns[s] = 0 /\ VenueOrderEvent(s, o, c)

SpecStrategy == InitOneSession /\ [][PlacedBefore \/ SessionStartup \/ StrategyNext]_vars

\* One session of any venue whose stream, once open, stays up.
StreamStaysUp ==
    \/ \E s \in Sessions, success \in BOOLEAN : InitWebsocket(s, success)
    \/ \E s \in Sessions : WsConnected(s)
    \/ \E s \in Sessions, success \in BOOLEAN : VenueReply(s, success)
    \/ \E s \in Sessions, o \in Orders :
          \E c \in VenueCodes(venue[s]) : VenueOrderEvent(s, o, c)
    \/ \E s \in Sessions : Receive(s)
    \/ \E j \in DOMAIN handlers : ProcessOrder(j)
    \/ \E j \in DOMAIN handlers : ProcessLogin(j)
    \/ \E j \in DOMAIN handlers, success \in BOOLEAN : RestOrdersReturn(j, success)
    \/ \E j \in DOMAIN handlers, success \in BOOLEAN : RestPositionReturn(j, success)
    \/ \E j \in DOMAIN handlers : ProcessSubscribe(j)
    \/ \E s \in Sessions, success \in BOOLEAN :
          \E i \in DOMAIN cc[s] : ConnectedCallbackReturn(s, i, success)

SpecStream == InitOneSession /\ [][StreamStaysUp]_vars

\* Trade objects being constructed, with parameters missing or not, and the
\* start-up of those whose construction went through.
InitNothingBuilt == InitBus /\ NoSessions /\ NoCalls /\ Constructed /\ NoPolls /\ NoRenewals /\ NoCallbacks /\ NoWire /\ NoFlights /\ NoEvents

TradeConstruct ==
    \E s \in Sessions, platform \in Venues \cup {"other"}, kw \in KwArgs,
       direct \in BOOLEAN : TradeInit(s, platform, kw, direct)

SpecTradeInit == InitNothingBuilt /\ [][TradeConstruct \/ SessionStartup]_vars

\* The bus of a process whose modules subscribe while it starts, whose
\* transport is lost now and then, and whose broker can be reached again: a
\* loss is followed by a channel that can still be opened, and subscribe() is
\* not called after the last loss.
BusRecovery ==
    \/ CheckConnection
    \/ \E t \in 1..MaxConnects, ok \in BOOLEAN : ConnectDial(t, ok)
    \/ \E t \in 1..MaxConnects : ConnectInstall(t)
    \/ \E t \in 1..MaxConnects : ConnectDeclare(t)
    \/ BindTimerFires
    \/ \E p \in 1..(MaxConnects + 1) : PassBind(p)
    \/ \E p \in 1..(MaxConnects + 1) : PassAddHandler(p)
    \/ \E c \in 1..MaxChannels : chCount < MaxChannels /\ ChannelLost(c)
    \/ \E k \in Keys, m \in BOOLEAN : chCount < MaxChannels /\ Subscribe(k, m)

\* The event loop runs every coroutine that can go on, the heartbeat of
\* LoopRunTask keeps calling _check_connection, the call_later timer fires, and
\* of the connect attempts that are made again and again one reaches the broker.
BusFair ==
    /\ WF_vars(CheckConnection)
    /\ SF_vars(\E t \in 1..MaxConnects : ConnectDial(t, TRUE))
    /\ WF_vars(\E t \in 1..MaxConnects : ConnectInstall(t))
    /\ WF_vars(\E t \in 1..MaxConnects : ConnectDeclare(t))
    /\ WF_vars(BindTimerFires)
    /\ WF_vars(\E p \in 1..(MaxConnects + 1) : PassBind(p))
    /\ WF_vars(\E p \in 1..(MaxConnects + 1) : PassAddHandler(p))

SpecBusLive == InitBusOnly /\ [][BusRecovery]_vars /\ BusFair

\* One event, encoded by its publisher and decoded by its subscriber.
InitCodec == InitBus /\ NoSessions /\ NoCalls /\ Constructed /\ NoPolls /\ NoRenewals /\ NoCallbacks /\ NoWire /\ NoFlights /\ InitEvents

SpecCodec == InitCodec /\ [][EventNext]_vars

\* One session that finds orders placed before it, its stream, and its
\* listen-key renewal.
SpecRenewal == InitOneSession /\ [][PlacedBefore \/ BinanceStartup \/ RenewalNext]_vars

SpecDispatch == InitBusOnly /\ [][DispatchNext]_vars

SpecWire == InitBusOnly /\ [][WireNext]_vars

Init == InitOneSession

Next == BusNext \/ SessionNext

Spec == Init /\ [][Next]_vars

(***************************************************************************)
(*                         Claims about the bus                            *)
(***************************************************************************)

\* The bus is connected on an open channel and no connect, bind pass or delayed
\* bind is outstanding.
BusQuiet ==
    /\ connected
    /\ channel \in openCh
    /\ conns = <<>>
    /\ passes = <<>>
    /\ ~timer

\* C1: after a reconnect has completed (the channel in use is not the first one
\* and the bind pass has ended), every subscription that was registered before
\* the new channel was installed is bound on it exactly once.
C1_RebindExactlyOnce ==
    (BusQuiet /\ chCount >= 2) =>
        \A i \in 1..knownAtInstall : Count(bound[channel], i) = 1

Acked(m) == \E a \in DOMAIN acks : acks[a].msg = m

Pending(m) == \E j \in DOMAIN cbTasks : cbTasks[j].msg = m

\* C5: at-least-once handling.  A message that has been acknowledged, and for
\* which no callback task is outstanding, has been handled by every callback that
\* was registered for its key.
C5_AckedOnlyWhenHandled ==
    \A m \in 1..msgCount :
        (Acked(m) /\ ~Pending(m)) =>
            \A j \in DOMAIN received[m].funcs : <<m, received[m].funcs[j]>> \in handled

\* C6: every message the exact-match consumer has received has been acknowledged
\* exactly once (the acknowledgment is part of the consumer's handling of the
\* message, after the dispatch loop, and also when the key has no handler).
C6_AckedExactlyOnce ==
    \A m \in 1..msgCount : Cardinality({a \in DOMAIN acks : acks[a].msg = m}) = 1

\* C7: a stored subscription is bound without a connection loss: whenever the bus
\* is connected and idle, every entry of the registry is bound on the channel.
C7_StoredIsBound ==
    BusQuiet => \A i \in DOMAIN subscribers : Count(bound[channel], i) >= 1

\* C8: publish() while not connected transmits nothing (no step taken while
\* self._connected is false changes what the broker was sent) and retains
\* nothing (an event dropped then is never among the events sent).
C8_DroppedNeverSent ==
    [][(~connected => sent' = sent) /\ (dropped' \cap sent' = {})]_vars

\* C8 witness: an event was dropped while not connected, the bus reconnected, and
\* a later event was transmitted.
C8_Witness ==
    \E d \in dropped : \E x \in sent : x > d /\ connected /\ chCount >= 1

(***************************************************************************)
(*                     Claims about trading sessions                       *)
(***************************************************************************)

\* The order-update callbacks a run of order frames calls for: one per frame
\* whose status code is in the table of the venue, in the order of the frames.
RECURSIVE MappedKnown(_, _)
MappedKnown(v, frames) ==
    IF frames = <<>> THEN <<>>
    ELSE LET f == Head(frames)
         IN IF OrderStatus(v, f.code) = "NONE"
               THEN MappedKnown(v, Tail(frames))
               ELSE <<[id |-> f.id, status |-> OrderStatus(v, f.code)]>>
                        \o MappedKnown(v, Tail(frames))

\* C2: the statuses reported to the order-update callback for streamed updates
\* are the venue's status codes of the updates handled so far, mapped through
\* the venue's table, in arrival order, with updates of unknown code left out.
C2_ReportsFollowArrivals ==
    \A s \in Sessions :
        reports[s] = MappedKnown(venue[s], SubSeq(arrivals[s], 1, nHandled[s]))

\* The open-order REST call of a reconciliation of session s is outstanding.
FetchOutstanding(s) ==
    \/ cc[s] # <<>>
    \/ \E j \in DOMAIN handlers : handlers[j].s = s /\ handlers[j].pc = "orders"

\* C3: while the open-order REST fetch of a session is outstanding, no streamed
\* update with a known status is applied to the local order map.
C3_NoStreamedUpdateDuringFetch ==
    [][\A s \in Sessions :
          (FetchOutstanding(s) /\ nHandled'[s] = nHandled[s] + 1)
              => OrderStatus(venue[s], arrivals[s][nHandled'[s]].code) = "NONE"]_vars

\* Session s is on a stream that is not its first, the reconciliation of that
\* connection has completed, and nothing of the session is in flight.
ReconciledAfterReconnect(s) ==
    /\ ws[s] = "open"
    /\ wsConns[s] >= 2
    /\ reconciledConn[s] = wsConns[s]
    /\ inbox[s] = <<>>
    /\ cc[s] = <<>>
    /\ \A j \in DOMAIN handlers : handlers[j].s # s

\* C4: once the reconciliation after a reconnect has completed, an order that
\* reached a terminal state at the venue while the stream was down is no longer
\* held as submitted or partially filled.
C4_NoStaleOrderAfterReconnect ==
    \A s \in Sessions :
        ReconciledAfterReconnect(s) =>
            \A o \in missed[s] : orders[s][o] \notin {"SUBMITTED", "PARTIAL_FILLED"}

InOrder(seq) == \A n \in DOMAIN seq : seq[n] = n

\* C9: the stream messages of one session are handled one at a time and in
\* arrival order: handling begins in arrival order, ends in arrival order, and
\* at most one message has begun and not ended.
C9_OneAtATimeInArrivalOrder ==
    \A s \in Sessions :
        /\ InOrder(began[s])
        /\ InOrder(ended[s])
        /\ Len(began[s]) - Len(ended[s]) \in {0, 1}

\* C9 witness: a later message of a session waits while the handler of an
\* earlier one is suspended in a REST call inside the lock.
C9_Witness ==
    \E i, j \in DOMAIN handlers :
        /\ i < j
        /\ handlers[i].s = handlers[j].s
        /\ handlers[i].pc \in {"orders", "position"}
        /\ handlers[j].pc = "wait"
        /\ Len(ended[handlers[i].s]) >= 1

\* Handler i is suspended inside the lock that the waiting handler j asks for.
Blocks(i, j) ==
    /\ i < j
    /\ handlers[i].pc \in {"orders", "position"}
    /\ handlers[j].pc = "wait"
    /\ LockKey(handlers[i]) = LockKey(handlers[j])

\* C10: a message of one session never waits for a handler of another session:
\* whenever a handler waits for a lock that a suspended handler holds, the two
\* belong to the same session.
C10_SessionsDoNotBlockEachOther ==
    \A i, j \in DOMAIN handlers :
        Blocks(i, j) => handlers[i].s = handlers[j].s

(***************************************************************************)
(*                 create_order() and revoke_order()                       *)
(***************************************************************************)

ZeroIdRevoke == call.op = "revoke_order" /\ Len(call.order_nos) = 0

\* C11: revoke_order() with zero ids fetches the open-order snapshot and
\* issues one cancel per order of it, in order; it returns (True, None) only
\* if every order of the snapshot was cancelled, and otherwise stops at the
\* first error and returns (False, error), issuing no further cancel and
\* leaving the orders cancelled before the error cancelled.
C11_ZeroIdRevokeAllOrFirstError ==
    ZeroIdRevoke =>
        /\ requests[1] = <<"get_open_orders">>
        /\ \A k \in 2..Len(requests) :
              /\ k - 1 \in DOMAIN call.snap
              /\ requests[k] = <<"revoke_order", call.snap[k - 1]>>
        /\ call.pc # "raised"
        /\ call.pc = "done" =>
              \/ /\ call.first = "True" /\ call.second = "None"
                 /\ Len(requests) = Len(call.snap) + 1
                 /\ \A k \in DOMAIN call.snap : call.snap[k] \in cancelled
              \/ /\ call.first = "False" /\ call.second = "error"
                 /\ Len(requests) = Len(responses)
                 /\ responses[Len(responses)] # "ok"
                 /\ \A k \in 1..(Len(responses) - 1) : responses[k] = "ok"
                 /\ \A k \in 2..(Len(responses) - 1) : call.snap[k - 1] \in cancelled

BatchRevoke == call.op = "revoke_order" /\ Len(call.order_nos) >= 2

\* The ids among the first k of the input whose cancel returned an error
\* (e = TRUE) or none (e = FALSE), in input order.
RECURSIVE Picked(_, _)
Picked(k, e) ==
    IF k = 0 THEN <<>>
    ELSE IF RestError(venue[call.s], "revoke_order", responses[k]) = e
       THEN Append(Picked(k - 1, e), call.order_nos[k])
    ELSE Picked(k - 1, e)

\* C12: revoke_order() with two or more ids attempts a cancel for every id,
\* whatever became of the earlier ones, and returns (succeeded, failed) that
\* partition the input in input order: an id is in `succeeded` iff its cancel
\* returned no error, and in `failed` otherwise.
C12_BatchRevokePartitionsInput ==
    BatchRevoke =>
        /\ call.pc # "raised"
        /\ \A k \in DOMAIN requests : requests[k] = <<"revoke_order", call.order_nos[k]>>
        /\ call.pc = "done" =>
              /\ Len(responses) = Len(call.order_nos)
              /\ call.first = "list" /\ call.second = "list"
              /\ call.success = Picked(Len(call.order_nos), FALSE)
              /\ call.error = Picked(Len(call.order_nos), TRUE)

\* C13: create_order() and revoke_order() with one id issue exactly one REST
\* request each and never repeat it; create_order() returns (order id, None)
\* when the request succeeded and (None, error) when it failed, and the
\* single-id revoke_order() returns (that id, error or None).
C13_OneRequestAndErrorValue ==
    /\ call.op = "create_order" =>
          /\ Len(requests) = 1
          /\ call.pc = "done" =>
                /\ Len(responses) = 1
                /\ IF responses[1] = "ok"
                      THEN call.first = "order_no" /\ call.second = "None"
                      ELSE call.first = "None" /\ call.second = "error"
    /\ (call.op = "revoke_order" /\ Len(call.order_nos) = 1) =>
          /\ call.pc # "raised"
          /\ requests = <<<<"revoke_order", call.order_nos[1]>>>>
          /\ call.pc = "done" =>
                /\ Len(responses) = 1
                /\ call.first = "order_no"
                /\ call.second = IF RestError(venue[call.s], "revoke_order", responses[1])
                                    THEN "error" ELSE "None"

(***************************************************************************)
(*                 Construction and start-up of a session                  *)
(***************************************************************************)

\* Trade(...) or T(...) was called for s with a required parameter missing or,
\* through the facade, with a platform it does not know.
BadConstruction(s) ==
    /\ built[s] # "no"
    /\ \/ /\ ~facade[s].direct
          /\ facade[s].platform \notin {"binance", "okex_margin", "okex_future"}
       \/ {"account", "strategy", "symbol", "access_key", "secret_key"} \ kwargs[s] # {}
       \/ /\ facade[s].platform \in {"okex_margin", "okex_future"}
          /\ "passphrase" \notin kwargs[s]

\* The session has done nothing: no stream, no periodic task, no bus
\* subscription, no REST request.
Inert(s) ==
    /\ ws[s] = "dead" /\ wsConns[s] = 0
    /\ loopTasks[s] = {}
    /\ ~assetSubs[s]
    /\ cc[s] = <<>>
    /\ \A j \in DOMAIN handlers : handlers[j].s # s
    /\ requests = <<>>

\* C14: a session constructed with a required parameter missing (account,
\* strategy, symbol, access_key, secret_key, and passphrase for OKEx), or with
\* a platform the Trade facade does not know, is failed for good: the
\* init-result callback, if one was given, is invoked exactly once with
\* (False, error), and the session never opens a stream, registers a periodic
\* task, subscribes to the bus or issues a REST request.
C14_MissingParameterFails ==
    \A s \in Sessions :
        BadConstruction(s)
        => /\ built[s] = "failed"
           /\ initLog[s] = IF "init_success_callback" \in kwargs[s] THEN <<FALSE>> ELSE <<>>
           /\ Inert(s)

\* A session of an OKEx class was constructed without its passphrase and its
\* callback has run, while the other session is up and streaming.
C14_Witness ==
    \E s \in Sessions, r \in Sessions :
        /\ BadConstruction(s)
        /\ IsOKEx(facade[s].platform)
        /\ kwargs[s] = Params \ {"passphrase"}
        /\ initLog[s] = <<FALSE>>
        /\ built[r] = "ok" /\ ws[r] = "open"

\* The init-result callback is started with (True, None) for s in this step.
ReportsReady(s) ==
    /\ Len(initLog'[s]) = Len(initLog[s]) + 1
    /\ initLog'[s][Len(initLog'[s])] = TRUE

\* C15: the OKEx future session invokes the init-result callback with
\* (True, None) only after both the order channel and the position channel
\* have been confirmed on the current connection; confirmations of an
\* earlier connection do not count after a reconnect.
C15_ReadyOnlyWhenBothConfirmedOnThisConnection ==
    [][\A s \in Sessions :
          (venue[s] = "okex_future" /\ ReportsReady(s))
          => \A chan \in {"order", "position"} :
                [conn |-> wsConns[s], channel |-> chan] \in confirmed'[s]]_vars

\* The init-result callback is started with (False, error) for s in this step.
ReportsFailed(s) ==
    /\ Len(initLog'[s]) = Len(initLog[s]) + 1
    /\ initLog'[s][Len(initLog'[s])] = FALSE

\* The coroutine h ends in this step.
Gone(h) == \A k \in DOMAIN handlers' : handlers'[k].s # h.s \/ handlers'[k].seq # h.seq

\* C16: in the OKEx sessions every failure of the start-up is reported: a
\* failed login, a failed REST read of the start-up and a failed channel
\* subscription each lead to the init-result callback with (False, error),
\* and a failed login is followed by no subscribe request.
C16_BootstrapFailureReported ==
    [][\A j \in DOMAIN handlers :
          LET h == handlers[j]
              s == h.s
          IN (IsOKEx(venue[s]) /\ Gone(h)) =>
                /\ (h.pc = "wait" /\ h.frame.kind = "login" /\ h.frame.code = "fail")
                      => (ReportsFailed(s) /\ venueTodo'[s] = venueTodo[s])
                /\ (h.pc = "orders" /\ reconciledConn'[s] # h.conn) => ReportsFailed(s)
                /\ (h.pc = "position" /\ ws[s] = "open" /\ venueTodo'[s] = venueTodo[s])
                      => ReportsFailed(s)
                /\ (h.pc = "wait" /\ h.frame.kind = "error") => ReportsFailed(s)]_vars

(***************************************************************************)
(*                         The position check                              *)
(***************************************************************************)

\* The Position a snapshot describes.
Described(info) ==
    [short_quantity |-> IF info.positionAmt < 0 THEN Abs(info.positionAmt) ELSE 0,
     short_avg_price |-> IF info.positionAmt < 0 THEN info.entryPrice ELSE 0,
     long_quantity |-> IF info.positionAmt > 0 THEN info.positionAmt ELSE 0,
     long_avg_price |-> IF info.positionAmt > 0 THEN info.entryPrice ELSE 0,
     utime |-> TRUE]

\* C17: after the baseline callback the position check invokes the
\* position-update callback only for a snapshot whose values differ from the
\* cached Position; consecutive identical snapshots, however many, yield
\* exactly one callback in total.
C17_CallbackOnlyOnChange ==
    \A s \in Sessions :
        /\ \A k \in 2..Len(posReports[s]) :
              LET r == posReports[s][k]
              IN /\ snaps[s][r.poll].entry
                 /\ Described(snaps[s][r.poll]) # r.was
        /\ (/\ posReports[s] # <<>>
            /\ \A k \in DOMAIN snaps[s] : snaps[s][k] = snaps[s][1])
           => Len(posReports[s]) = 1

\* Three identical snapshots of a long position have been polled, and one
\* callback was made.
C17_Witness ==
    \E s \in Sessions :
        /\ Len(snaps[s]) = MaxPolls
        /\ \A k \in DOMAIN snaps[s] : snaps[s][k] = snaps[s][1]
        /\ snaps[s][1].positionAmt > 0
        /\ Len(posReports[s]) = 1
        /\ polling[s] = 0

\* C18: the first successful position poll after the start-up has succeeded
\* results in exactly one position-update callback, whatever the snapshot
\* holds (a position, no position, no entry for the symbol), and no position
\* poll is issued before the start-up has succeeded.
C18_FirstPollSetsBaseline ==
    \A s \in Sessions :
        /\ polls[s] > 0 => _ok[s]
        /\ snaps[s] # <<>> =>
              /\ posReports[s] # <<>>
              /\ posReports[s][1].poll = 1
              /\ \A k \in 2..Len(posReports[s]) : posReports[s][k].poll > 1

(***************************************************************************)
(*                    What the strategy is handed                          *)
(***************************************************************************)

\* The Order and Asset state of the session as its own code reads it.
InternalView(s) ==
    [orders |-> orders[s],
     assets |-> IF _assets[s] = NoAsset THEN <<>>
                ELSE <<objs[_assets[s]].update, dicts[objs[_assets[s]].assets]>>]

\* C19: what a session hands to external code (its `orders`, `assets` and
\* `position` properties, the objects passed to its callbacks) is a defensive
\* copy: no assignment the strategy makes to what it received changes the
\* Order, Asset or Position state of the session.
C19_HandedOutIsDefensiveCopy ==
    [][mutations' # mutations => \A s \in Sessions : InternalView(s)' = InternalView(s)]_vars

(***************************************************************************)
(*                 First sighting of an order on the stream                *)
(***************************************************************************)

Present(m) == {o \in Orders : m[o] # "absent"}

\* The handler h of a streamed update with a recognised status for an order
\* the map does not hold runs in this step.
UnseenOrderHandled(h) ==
    /\ h.pc = "wait"
    /\ h.frame.kind = "order"
    /\ Gone(h)
    /\ OrderStatus(venue[h.s], h.frame.code) # "NONE"
    /\ orders[h.s][h.frame.id] = "absent"

NotKept(v) ==
    IF v = "okex_margin" THEN {"FILLED", "CANCELED", "FAILED"}
    ELSE IF v = "okex_future" THEN {"FILLED", "CANCELED"}
    ELSE {}

LastIntact == got # <<>> /\ got[Len(got)].intact

\* C21: decoding with loads() the bytes that dumps() returned for an event
\* reproduces the name and the data of that event, for every name and every
\* JSON-representable data value of the bounded set: loads() raises nothing
\* and the subscriber's event then holds the publisher's name and data.
C21_DumpsLoadsRoundTrip ==
    LastIntact => /\ got[Len(got)].loaded
                  /\ sub.name = pub.name
                  /\ sub.data = pub.data

\* An event whose name has a quote in it and whose data is a dict of two items
\* has made the round trip.
C21_Witness ==
    /\ LastIntact
    /\ pub.cls = "Event"
    /\ pub.name = PyStr(<<Quote, "a">>)
    /\ pub.data.t = "dict"
    /\ Len(pub.data.v) = 2


\* Event.callback handles a payload that no dumps() has produced.
MalformedHandled == body # <<>> /\ ~intact /\ got' # got

\* C22: a corrupted or unparseable payload yields an error and nothing else:
\* the subscriber's callback is not invoked for it, and the name and data the
\* event has decoded before are not replaced.
C22_MalformedPayloadOnlyRaises ==
    [][MalformedHandled => ~got'[Len(got')].called /\ sub' = sub]_vars


(***************************************************************************)
(*                    Claims about the bus, continued                      *)
(***************************************************************************)

\* The channel the bus has had is gone.
Lost == chCount >= 1 /\ channel \notin openCh

\* The bus is connected on an open channel, and every subscription of the
\* registry is consumed on it, an exact-match one with its callback in the
\* dispatch table.
Rebound ==
    /\ connected
    /\ channel \in openCh
    /\ \A i \in DOMAIN subscribers :
          /\ Count(bound[channel], i) >= 1
          /\ ~subscribers[i].multi => Count(event_handler[subscribers[i].key], i) >= 1

C24_OneAttemptInstalls ==
    [][(channel' # channel /\ channel' # NoChannel) =>
          ~(connected /\ channel \in openCh)]_vars


(***************************************************************************)
(*                Claims about the sessions, continued                     *)
(***************************************************************************)

\* C25: every stream connection of a session, the first and each one after a
\* transport loss, is preceded by the authentication step of the venue: a
\* listen-key session opens the stream with a listen key it has just acquired,
\* a login session sends the login on the connection it has opened.
C25_ReconnectAuthenticatesAgain ==
    [][\A s \in Sessions :
          (ws[s] # "open" /\ ws'[s] = "open") =>
              IF IsBinance(venue[s]) THEN ws[s] = "connecting"
                                     ELSE venueTodo'[s] = <<"login">>]_vars


\* A put_listen_key request of session s ends as failed.
RenewalFails(s) ==
    \E i \in DOMAIN putLog[s] : putLog[s][i] = "pending" /\ putLog'[s][i] = "failed"

\* The renewal task of a session whose renewal has failed can fire again.
RenewalRetried ==
    \A s \in Sessions :
        (Len(putLog[s]) < MaxRenewals /\ \E i \in DOMAIN putLog[s] : putLog[s][i] = "failed")
            => ENABLED ResetListenKey(s)

\* C26: a failed listen-key renewal changes nothing in the session (listen key,
\* stream connection, order map, readiness and what was reported are as
\* before), the renewal fires again at the next interval, and a renewal that
\* fires before a listen key exists sends no request.
C26_FailedRenewalChangesNothing ==
    /\ []RenewalRetried
    /\ [][\A s \in Sessions :
             /\ RenewalFails(s) =>
                   UNCHANGED <<listenKey, wsVars, orders, subOk, _ok, initLog, cc, handlers>>
             /\ Len(putLog'[s]) > Len(putLog[s]) => listenKey[s]]_vars

\* A session with an order in its map and its stream open has had a renewal
\* fail and has sent the next one.
C26_Witness ==
    \E s \in Sessions :
        /\ putLog[s] = <<"failed", "pending">>
        /\ ws[s] = "open"
        /\ \E o \in Orders : orders[s][o] # "absent"

\* C27: every callback of client code that runs was run by a task the loop
\* scheduled, and none ran in the code path that triggered it.
C27_CallbacksRunAsTasks == \A j \in DOMAIN ran : ran[j].by = "task"

\* C28: every publish and every bind sent to the broker names an exchange
\* that connect() has declared.
C28_TargetsAreDeclared ==
    \A w \in brokerOps : w.op \in {"publish", "bind"} => w.exchange \in declared

\* C29: an exact-match subscription consumes from the queue named
\* {serverId}.{exchange}.{routingKey}, and a wildcard (multi) subscription
\* from an anonymous exclusive queue.
C29_QueueOfSubscription ==
    \A w \in brokerOps :
        w.op = "consume" =>
            IF w.multi
               THEN w.exclusive /\ w.queue = <<"amq.gen">>
               ELSE w.queue = <<ServerId, w.exchange>> \o w.routing_key

\* C30: for every domain event class, handling a payload that dumps() made
\* invokes the subscriber's callback with the domain object built from the
\* decoded data, never with None.
C30_CallbackGetsDomainObject ==
    \A j \in DOMAIN got :
        got[j].intact /\ sub.cls # "Event" =>
            /\ got[j].called
            /\ got[j].arg # PyNone


(***************************************************************************)
(*                  Claims about the bus, third part                       *)
(***************************************************************************)

\* Every handler of the dispatch table was registered for a subscription that
\* is consumed on the channel the bus holds.
HandlersOfCurrentChannel ==
    \A k \in Keys : \A j \in DOMAIN event_handler[k] :
        /\ channel # NoChannel
        /\ channel \in openCh => Count(bound[channel], event_handler[k][j]) >= 1

\* No callback is in the dispatch table more than once for one subscription.
HandlersOnce ==
    \A k \in Keys : \A j \in DOMAIN event_handler[k] :
        Count(event_handler[k], event_handler[k][j]) = 1

\* C31: once the health check has found the connection lost, the dispatch
\* table holds only handlers that the bind pass of the current connection
\* registered, and each callback at most once for each of its subscriptions.
C31_TableOfCurrentConnection == HandlersOfCurrentChannel /\ HandlersOnce

\* A connect() coroutine comes to its end on a live channel.
ConnectCompletes(reconnect) ==
    /\ Len(conns') < Len(conns)
    /\ \E u \in DOMAIN conns :
          /\ conns[u].pc = "declare"
          /\ conns[u].reconnect = reconnect
          /\ conns' = RemoveAt(conns, u)
    /\ channel # NoChannel
    /\ channel \in openCh

\* The delayed _bind_and_consume of the first connect is called.
DelayedBindRuns == timer /\ ~timer'

\* C32: the first connect starts no bind pass when it completes but leaves it
\* to a later step; a reconnect starts its bind pass when it completes, with no
\* delay; and the delayed bind pass of the first connect runs only while the
\* channel of the first connect is the one the bus holds.
C32_DelayedFirstBindOnItsConnection ==
    [][/\ ConnectCompletes(FALSE) => passes' = passes /\ timer'
       /\ ConnectCompletes(TRUE) => Len(passes') = Len(passes) + 1 /\ timer' = timer
       /\ DelayedBindRuns => channel \in {NoChannel, 1}]_vars


(***************************************************************************)
(*                 Claims about the sessions, third part                   *)
(***************************************************************************)

\* The order-update callbacks of the step: those of the bootstrap loop when
\* the open-order REST call returns with success, and the one of a streamed
\* update.
CallbacksOfStep ==
    {c \in [id : Orders, status : {"null", "NONE", "SUBMITTED", "PARTIAL_FILLED",
                                   "FILLED", "CANCELED", "FAILED"}] :
        \/ \E j \in DOMAIN handlers :
              /\ handlers[j].pc = "orders"
              /\ reconciledConn'[handlers[j].s] # reconciledConn[handlers[j].s]
              /\ \E q \in DOMAIN SeedCallbacks(venue[handlers[j].s], cidDigit[handlers[j].s],
                                               handlers[j].snap, 1) :
                    SeedCallbacks(venue[handlers[j].s], cidDigit[handlers[j].s],
                                  handlers[j].snap, 1)[q] = c
        \/ \E s \in Sessions : \E i \in DOMAIN cc[s] :
              /\ cc'[s] = RemoveAt(cc[s], i)
              /\ initLog'[s] # Append(initLog[s], FALSE)
              /\ \E q \in DOMAIN SeedCallbacks(venue[s], cidDigit[s], cc[s][i].snap, 1) :
                    SeedCallbacks(venue[s], cidDigit[s], cc[s][i].snap, 1)[q] = c
        \/ \E s \in Sessions :
              /\ Len(reports'[s]) = Len(reports[s]) + 1
              /\ c = reports'[s][Len(reports'[s])]}

\* C33: no step invokes the order-update callback with a null order or for an
\* update whose status code is outside the table of the venue, on the REST
\* bootstrap path and on the streamed path alike.
C33_NoCallbackForDroppedUpdate ==
    [][\A c \in CallbacksOfStep : c.status \notin {"null", "NONE"}]_vars

\* The answer to request n of session s arrives with success in this step.
Arrives(s, n) ==
    /\ n \in DOMAIN flights[s]
    /\ flights[s][n].st = "out"
    /\ flights'[s][n].st = "ok"

\* The answer to a request made after request n has arrived with success.
Overtaken(s, n) == \E m \in DOMAIN flights[s] : m > n /\ flights[s][m].st = "ok"

\* C34: with position requests overlapping and their answers arriving in any
\* order, the answer to a request that a later request has overtaken changes
\* neither the cached Position nor the callbacks made, so that the Position and
\* the last callback are those of the request made last.
C34_StaleSnapshotNeverOverwrites ==
    [][\A s \in Sessions : \A n \in 1..MaxPolls :
          Arrives(s, n) /\ Overtaken(s, n) =>
              /\ _position'[s] = _position[s]
              /\ posReports'[s] = posReports[s]]_vars

\* C35: the acknowledgment of a message goes out on the channel the message
\* was delivered on: when the consumer handles a message the bus holds that
\* channel, not a later one and not none, and every acknowledgment that has
\* reached the broker names the channel of its message.
C35_AckOnChannelOfDelivery ==
    /\ \A m \in DOMAIN received : received[m].held = received[m].ch
    /\ \A a \in DOMAIN acks : acks[a].on = acks[a].from

\* The normalised statuses an order does not leave.
TerminalStatuses == {"FILLED", "CANCELED", "FAILED"}

\* C36: the order map of an OKEx session (future and margin) holds no order
\* whose status is FILLED, CANCELED or FAILED in any reachable state, and no
\* step of a Binance session takes an order out of its map.
C36_OKExMapHoldsNoTerminalOrder ==
    /\ [](\A s \in Sessions : IsOKEx(venue[s]) =>
              \A o \in Orders : orders[s][o] \notin TerminalStatuses)
    /\ [][\A s \in Sessions : IsBinance(venue[s]) =>
              \A o \in Orders : orders[s][o] # "absent" => orders'[s][o] # "absent"]_vars

(***************************************************************************)
(*        Claims about the calls and the polls, third part                 *)
(***************************************************************************)

\* A session that starts up with orders open at the venue, receives one asset
\* event and makes one position poll while its strategy makes one call of
\* create_order(), revoke_order() or get_open_order_nos().
SpecLocal ==
    InitOneSession /\
    [][\/ PlacedBefore
       \/ SessionStartup
       \/ \E s \in Sessions : objs = <<>> /\ OnEventAssetUpdate(s, 1)
       \/ \E s \in Sessions : polls[s] = 0 /\ CheckPositionUpdate(s) /\ UNCHANGED pollVars
       \/ \E s \in Sessions :
             GetPositionReturn(s, TRUE, [entry |-> TRUE, positionAmt |-> 1, entryPrice |-> 1])
                /\ UNCHANGED pollVars
       \/ CallNext
       \/ \E s \in Sessions : GetOpenOrderNos(s)
       \/ \E wire \in {"ok", "error"}, snap \in Snapshots :
             GetOpenOrderNosReturn(wire, snap)]_vars

\* A step of create_order(), revoke_order() or get_open_order_nos().
CallStep == call' # call \/ requests' # requests \/ responses' # responses

\* C37: no step of create_order(), revoke_order() or get_open_order_nos(),
\* whether its REST request succeeded or failed, changes the order map, the
\* position or the asset cache of a session; the order map changes only in a
\* step of connected_callback() or of a message handler of the stream.
C37_CallsLeaveLocalStateAlone ==
    [][/\ CallStep => UNCHANGED <<orders, _position, _assets>>
       /\ orders' # orders => cc' # cc \/ handlers' # handlers]_vars

\* A revoke_order() has returned after the venue cancelled an order that the
\* session still holds in its order map.
C37_Witness ==
    /\ call.pc = "done"
    /\ call.op = "revoke_order"
    /\ \E o \in cancelled : orders[call.s][o] # "absent"

\* C38: whenever the last answered position poll of a session carried an entry
\* for the symbol, the cached Position is the one that snapshot describes, in
\* both quantities and both average prices.
C38_CacheEqualsLastSnapshot ==
    \A s \in Sessions :
        (Len(snaps[s]) > 0 /\ snaps[s][Len(snaps[s])].entry)
            => _position[s] = Described(snaps[s][Len(snaps[s])])

(***************************************************************************)
(*        Claims about the sessions, fourth part                           *)
(***************************************************************************)

\* The bootstraps a session has begun: one for each stream connection it has
\* opened, or the one that ended when the listen key could not be fetched.
Bootstraps(s) == IF ws[s] = "dead" /\ wsConns[s] = 0 THEN 1 ELSE wsConns[s]

\* C39: the init-result callback is invoked at most once for each connection
\* bootstrap, so a session has never reported more init-results than it has
\* begun bootstraps, whatever subscribe confirmations have arrived.
C39_InitResultOncePerBootstrap ==
    \A s \in Sessions : Len(initLog[s]) <= Bootstraps(s)

\* What BinanceTrade.process() makes of the order map for an update of order
\* o with venue code x: nothing for a code outside its table.
SpotApplies(m, o, x) ==
    IF BinanceStatus(x) = "NONE" THEN m ELSE [m EXCEPT ![o] = BinanceStatus(x)]

\* process() of session s handles the streamed order frame of handler j.
StreamedStep(s, j) ==
    /\ j \in DOMAIN handlers
    /\ handlers[j].s = s
    /\ handlers[j].frame.kind = "order"
    /\ handlers' = RemoveAt(handlers, j)
    /\ nHandled'[s] = nHandled[s] + 1

\* connected_callback() of session s goes through the open orders of fetch i
\* to the end and reports (True, None).
BootstrapStep(s, i) ==
    /\ i \in DOMAIN cc[s]
    /\ cc'[s] = RemoveAt(cc[s], i)
    /\ initLog'[s] = Append(initLog[s], TRUE)

\* C40: the Binance future session normalises the venue's order status as the
\* Binance spot session does: a streamed update leaves its order map as
\* BinanceTrade.process() would leave it, and after a bootstrap every open
\* order whose code the spot table knows is held with the spot status.
C40_FutureNormalisesAsSpot ==
    [][\A s \in Sessions : venue[s] = "binance_future" =>
          /\ \A j \in DOMAIN handlers :
                StreamedStep(s, j) =>
                    orders'[s] = SpotApplies(orders[s], handlers[j].frame.id,
                                             handlers[j].frame.code)
          /\ \A i \in DOMAIN cc[s] :
                BootstrapStep(s, i) =>
                    \A o \in Orders :
                        (cc[s][i].snap[o] # "none"
                            /\ BinanceStatus(cc[s][i].snap[o]) # "NONE")
                        => orders'[s][o] = BinanceStatus(cc[s][i].snap[o])]_vars

=============================================================================
